---- MODULE Spec2Model ----
(***************************************************************************)
(* The text -> image -> 3D pipeline of PromptTo3DStudio:                   *)
(*   app/utils/error_handling.py      ExecutionContext, retry              *)
(*   app/services/llm_service.py      LLMService.enhance_prompt            *)
(*   app/services/pipeline_service.py PipelineService.process              *)
(* One execution of process is a sequence of steps, one per collaborator   *)
(* invocation (language model request, Stub.call, save_base64_image,       *)
(* save_3d_model); the code of process between two invocations belongs to  *)
(* the step of the invocation that precedes it.                            *)
(***************************************************************************)
EXTENDS Integers, Sequences, FiniteSets, TLC

\* ------------------------------------------------------------------------
\* Bounds of the model
\* ------------------------------------------------------------------------
\* Longest user prompt, in characters.
MaxPromptLen == 1
\* Longest language-model response, in characters.
MaxTextLen == 2
\* Largest max_attempts given to the retry decorator in RetrySpec.
MaxAttemptsBound == 4

\* ------------------------------------------------------------------------
\* Python values
\* ------------------------------------------------------------------------
\* An Optional[...] field is a set: {} is None, {v} is the value v.
None == {}
Some(v) == {v}
TheValue(o) == CHOOSE v \in o : TRUE

\* Strings that the code manipulates are sequences of characters.
Chars == {" ", "a"}
Texts == UNION {[1..n -> Chars] : n \in 0..MaxTextLen}
Prompts == UNION {[1..n -> Chars] : n \in 0..MaxPromptLen}

IsSpace(c) == c = " "

RECURSIVE lstrip(_)
lstrip(s) == IF s # <<>> /\ IsSpace(Head(s)) THEN lstrip(Tail(s)) ELSE s

RECURSIVE rstrip(_)
rstrip(s) ==
    IF s # <<>> /\ IsSpace(s[Len(s)]) THEN rstrip(SubSeq(s, 1, Len(s) - 1)) ELSE s

\* str.strip()
strip(s) == rstrip(lstrip(s))

\* A value returned by a service: None or a dict (a set of <<key, value>>).
PyNone == [none |-> TRUE, dict |-> {}]
PyDict(d) == [none |-> FALSE, dict |-> d]
\* `not result`
Falsy(r) == r.none \/ r.dict = {}
\* `key in result`
HasKey(r, key) == \E kv \in r.dict : kv[1] = key
\* `result[key]`
GetItem(r, key) == (CHOOSE kv \in r.dict : kv[1] = key)[2]

\* Exceptions: a class and a message (a sequence of message parts).
Exc(cls, msg) == [cls |-> cls, msg |-> msg]
ExcSuper(cls) ==
    CASE cls = "RequestException" -> "OSError"
      [] cls = "OSError" -> "Exception"
      [] cls = "JSONDecodeError" -> "ValueError"
      [] cls = "ValueError" -> "Exception"
      [] cls = "TypeError" -> "Exception"
      [] cls = "Exception" -> "BaseException"
      [] OTHER -> "object"

RECURSIVE IsSubclass(_, _)
IsSubclass(cls, base) ==
    \/ cls = base
    \/ cls \notin {"object", "BaseException"} /\ IsSubclass(ExcSuper(cls), base)

\* `except <base> as e` catches e
Catches(base, e) == IsSubclass(e.cls, base)

\* str(e)
StrExc(e) == e.msg
\* `part in str(e)`
MsgContains(e, part) == \E i \in 1..Len(e.msg) : e.msg[i] = part

\* A call that either returns a value or raises.
Return(v) == [kind |-> "return", value |-> Some(v), exc |-> None]
Raise(e) == [kind |-> "raise", value |-> None, exc |-> Some(e)]

\* ------------------------------------------------------------------------
\* ExecutionContext
\* ------------------------------------------------------------------------
StageOrder ==
    << "initialized", "prompt_enhancement", "text_to_image", "image_saving",
       "image_to_3d", "model_saving", "complete" >>

StageIndex(s) == CHOOSE i \in 1..Len(StageOrder) : StageOrder[i] = s

\* (variant: a constructor that generates an id only for `is None`)
ExecutionContext_if_none(user_prompt, correlation_id, uuid4, now) ==
    [ correlation_id |-> IF correlation_id # None
                         THEN TheValue(correlation_id) ELSE uuid4,
      user_prompt |-> user_prompt,
      enhanced_prompt |-> None,
      image_path |-> None,
      image_filename |-> None,
      model_path |-> None,
      model_filename |-> None,
      start_time |-> now,
      stage |-> "initialized",
      error |-> None ]

\* ExecutionContext.__init__: `correlation_id or str(uuid.uuid4())`, and
\* start_time = time.time() (now, in milliseconds)
ExecutionContext(user_prompt, correlation_id, uuid4, now) ==
    [ correlation_id |-> IF correlation_id # None /\ TheValue(correlation_id) # ""
                         THEN TheValue(correlation_id) ELSE uuid4,
      user_prompt |-> user_prompt,
      enhanced_prompt |-> None,
      image_path |-> None,
      image_filename |-> None,
      model_path |-> None,
      model_filename |-> None,
      start_time |-> now,
      stage |-> "initialized",
      error |-> None ]

\* (variant: an update_stage that does not write the stage)
update_stage_stuck(ctx, stage) == ctx

\* ExecutionContext.update_stage
update_stage(ctx, stage) == [ctx EXCEPT !.stage = stage]

\* (variant: a set_error that does not write the error)
set_error_dropped(ctx, error) == ctx

\* (variant: a set_error that also moves the context to a stage "error")
set_error_marks_stage(ctx, error) ==
    [ctx EXCEPT !.error = Some(error), !.stage = "error"]

\* ExecutionContext.set_error
set_error(ctx, error) == [ctx EXCEPT !.error = Some(error)]


\* ------------------------------------------------------------------------
\* retry(max_attempts, delay, backoff): the state of one call of wrapper
\* ------------------------------------------------------------------------
RECURSIVE Pow(_, _)
Pow(b, n) == IF n = 0 THEN 1 ELSE b * Pow(b, n - 1)

\* (variant: a wrapper whose loop is `range(max_attempts + 1)`)
RetryFrame_one_more(max_attempts, delay, backoff) ==
    [ max_attempts |-> max_attempts + 1, delay |-> delay, backoff |-> backoff,
      attempt |-> 0, current_delay |-> delay, last_exception |-> None ]

\* wrapper's locals on entry: last_exception = None, current_delay = delay;
\* attempt is the index of the next iteration of `for attempt in range(..)`.
RetryFrame(max_attempts, delay, backoff) ==
    [ max_attempts |-> max_attempts, delay |-> delay, backoff |-> backoff,
      attempt |-> 0, current_delay |-> delay, last_exception |-> None ]

NoRetryFrame == RetryFrame(0, 0, 0)

\* (variant: a wrapper that sleeps after every failed attempt)
sleeps_always(f) == TRUE

\* `if attempt < max_attempts - 1`
sleeps_before_retry(f) == f.attempt < f.max_attempts - 1

\* (variant: a wrapper whose delay never grows)
next_delay_constant(f) == f.current_delay

\* `current_delay *= backoff`
next_delay(f) == f.current_delay * f.backoff

\* (variant: a wrapper that calls func again after it succeeded)
retry_iteration_no_return(f, out) ==
    IF out.kind = "return"
    THEN IF f.attempt < f.max_attempts - 1
         THEN [frame |-> [f EXCEPT !.attempt = @ + 1], slept |-> <<>>,
               result |-> None]
         ELSE [frame |-> f, slept |-> <<>>, result |-> Some(out)]
    ELSE IF ~Catches("Exception", TheValue(out.exc))
    THEN [frame |-> f, slept |-> <<>>, result |-> Some(out)]
    ELSE LET f1 == [f EXCEPT !.last_exception = out.exc, !.attempt = @ + 1] IN
         IF sleeps_before_retry(f)
         THEN [frame |-> [f1 EXCEPT !.current_delay = next_delay(f)],
               slept |-> <<f.current_delay>>, result |-> None]
         ELSE [frame |-> f1, slept |-> <<>>, result |-> None]

\* (variant: a wrapper that lets a ValueError through without retrying)
retry_iteration_value_error_escapes(f, out) ==
    IF out.kind = "return"
    THEN [frame |-> f, slept |-> <<>>, result |-> Some(out)]
    ELSE IF ~Catches("Exception", TheValue(out.exc))
            \/ Catches("ValueError", TheValue(out.exc))
    THEN [frame |-> f, slept |-> <<>>, result |-> Some(out)]
    ELSE LET f1 == [f EXCEPT !.last_exception = out.exc, !.attempt = @ + 1] IN
         IF sleeps_before_retry(f)
         THEN [frame |-> [f1 EXCEPT !.current_delay = next_delay(f)],
               slept |-> <<f.current_delay>>, result |-> None]
         ELSE [frame |-> f1, slept |-> <<>>, result |-> None]

\* One iteration of the loop, given what func(*args, **kwargs) did:
\* result is what wrapper returns in this iteration (None: it goes on),
\* slept is the argument of time.sleep when it is called.
retry_iteration(f, out) ==
    IF out.kind = "return"
    THEN [frame |-> f, slept |-> <<>>, result |-> Some(out)]
    ELSE IF ~Catches("Exception", TheValue(out.exc))
    THEN [frame |-> f, slept |-> <<>>, result |-> Some(out)]
    ELSE LET f1 == [f EXCEPT !.last_exception = out.exc, !.attempt = @ + 1] IN
         IF sleeps_before_retry(f)
         THEN [frame |-> [f1 EXCEPT !.current_delay = next_delay(f)],
               slept |-> <<f.current_delay>>, result |-> None]
         ELSE [frame |-> f1, slept |-> <<>>, result |-> None]

\* (variant: a wrapper that raises an error of its own)
retry_exhausted_wrapped(f) ==
    Raise(Exc("Exception", <<"all attempts failed">>))

\* (variant: a wrapper that returns None when it made no attempt)
retry_exhausted_returns_none(f) ==
    IF f.last_exception = None
    THEN Return("None")
    ELSE Raise(TheValue(f.last_exception))

\* `raise last_exception` after the loop; `raise None` is a TypeError.
retry_exhausted(f) ==
    IF f.last_exception = None
    THEN Raise(Exc("TypeError", <<"exceptions must derive from BaseException">>))
    ELSE Raise(TheValue(f.last_exception))

\* ------------------------------------------------------------------------
\* LLMService
\* ------------------------------------------------------------------------
\* LLMService.__init__ defaults
LLM_MAX_RETRIES == 3
LLM_RETRY_DELAY == 2

LLMFrame(max_retries, retry_delay) ==
    [ max_retries |-> max_retries, retry_delay |-> retry_delay,
      attempt |-> 0, last_exception |-> None ]

\* (variant: a try body that returns the response text as it came)
llm_request_unstripped(out) ==
    IF out.kind = "raise" THEN out
    ELSE LET result == TheValue(out.value) IN
         Return(IF HasKey(result, "response")
                THEN GetItem(result, "response") ELSE <<>>)

\* The try body of _call_llm_with_retry, given what requests.post /
\* raise_for_status / json did: result.get("response", "").strip()
llm_request(out) ==
    IF out.kind = "raise" THEN out
    ELSE LET result == TheValue(out.value) IN
         Return(strip(IF HasKey(result, "response")
                      THEN GetItem(result, "response") ELSE <<>>))

\* (variant: a loop whose `except` catches every Exception)
llm_iteration_retries_all(f, out) ==
    LET r == llm_request(out) IN
    IF r.kind = "return"
    THEN [frame |-> f, slept |-> <<>>, result |-> Some(r)]
    ELSE IF ~Catches("Exception", TheValue(r.exc))
    THEN [frame |-> f, slept |-> <<>>, result |-> Some(r)]
    ELSE [frame |-> [f EXCEPT !.last_exception = r.exc, !.attempt = @ + 1],
          slept |-> <<f.retry_delay * Pow(2, f.attempt)>>, result |-> None]

\* One iteration of the loop of _call_llm_with_retry.
llm_iteration(f, out) ==
    LET r == llm_request(out) IN
    IF r.kind = "return"
    THEN [frame |-> f, slept |-> <<>>, result |-> Some(r)]
    ELSE IF ~Catches("RequestException", TheValue(r.exc))
    THEN [frame |-> f, slept |-> <<>>, result |-> Some(r)]
    ELSE [frame |-> [f EXCEPT !.last_exception = r.exc, !.attempt = @ + 1],
          slept |-> <<f.retry_delay * Pow(2, f.attempt)>>, result |-> None]

\* str(last_exception)
StrOpt(e) == IF e = None THEN <<"None">> ELSE StrExc(TheValue(e))

\* `raise Exception(f"Failed to call LLM API after ...")` after the loop
llm_exhausted(f) ==
    Raise(Exc("Exception",
              <<"Failed to call LLM API after", ToString(f.max_retries), "attempts:">>
                \o StrOpt(f.last_exception)))

\* (variant: an enhance_prompt that falls back on an empty response too)
enhance_prompt_or_prompt(prompt, inner) ==
    IF inner.kind = "return"
    THEN IF TheValue(inner.value) = <<>> THEN Return(prompt) ELSE inner
    ELSE IF Catches("Exception", TheValue(inner.exc)) THEN Return(prompt)
    ELSE inner

\* (variant: an enhance_prompt without the fallback)
enhance_prompt_propagates(prompt, inner) == inner

\* enhance_prompt: try: return self._call_llm_with_retry(...)
\*                 except Exception: return prompt
enhance_prompt(prompt, inner) ==
    IF inner.kind = "return" THEN inner
    ELSE IF Catches("Exception", TheValue(inner.exc)) THEN Return(prompt)
    ELSE inner


\* ------------------------------------------------------------------------
\* PipelineService: the two retry-wrapped adapters
\* ------------------------------------------------------------------------
\* @retry(max_attempts=3, delay=2.0) on both adapters; backoff defaults to 2.0
PIPELINE_MAX_ATTEMPTS == 3
PIPELINE_DELAY == 2
RETRY_BACKOFF == 2

ImageError == Exc("ValueError", <<"Failed to generate image from text">>)
ModelError == Exc("ValueError", <<"Failed to generate 3D model from image">>)

\* _generate_image_from_text, given what Stub(...).call did
generate_image_from_text(out) ==
    IF out.kind = "raise" THEN out
    ELSE LET result == TheValue(out.value) IN
         IF Falsy(result) \/ ~HasKey(result, "image")
         THEN Raise(ImageError)
         ELSE Return(result)

\* _generate_3d_from_image, given what Stub(...).call did
generate_3d_from_image(out) ==
    IF out.kind = "raise" THEN out
    ELSE LET result == TheValue(out.value) IN
         IF Falsy(result) THEN Raise(ModelError) ELSE Return(result)

\* ------------------------------------------------------------------------
\* PipelineService.process: the code between two collaborator calls, as a
\* function of the frame of process
\*   fr = [pc, context, locals, stage_log, outcome, thrown]
\* ------------------------------------------------------------------------
NoLocals ==
    [ enhanced_prompt |-> None, image_result |-> None,
      image_path |-> None, model_result |-> None ]

\* context.update_stage(stage): sets the stage and logs it
Advance(fr, stage) ==
    [fr EXCEPT !.context = update_stage(@, stage),
               !.stage_log = Append(@, stage),
               !.pc = stage]

\* (variant: a handler that catches ValueError only)
process_except_value_error_only(fr, e) ==
    IF Catches("ValueError", e)
    THEN [fr EXCEPT !.context = set_error(@, e), !.pc = "done",
                    !.outcome = "returned", !.thrown = Some(e)]
    ELSE [fr EXCEPT !.pc = "done", !.outcome = "raised", !.thrown = Some(e)]

\* `except Exception as e: context.set_error(e)`, then `return context`
process_except(fr, e) ==
    IF Catches("Exception", e)
    THEN [fr EXCEPT !.context = set_error(@, e), !.pc = "done",
                    !.outcome = "returned", !.thrown = Some(e)]
    ELSE [fr EXCEPT !.pc = "done", !.outcome = "raised", !.thrown = Some(e)]

\* (variant: a process that calls the language model before it sets the stage)
process_begin_no_stage(fr) == [fr EXCEPT !.pc = "prompt_enhancement"]

\* line 45
process_begin(fr) == Advance(fr, "prompt_enhancement")

\* (variant: a process that ignores the enhanced prompt)
process_enhanced_keeps_original(fr, r) ==
    IF r.kind = "raise" THEN process_except(fr, TheValue(r.exc))
    ELSE Advance([fr EXCEPT !.locals.enhanced_prompt = Some(fr.context.user_prompt),
                            !.context.enhanced_prompt = Some(fr.context.user_prompt)],
                 "text_to_image")

\* lines 47-51, given what llm_service.enhance_prompt did
process_enhanced(fr, r) ==
    IF r.kind = "raise" THEN process_except(fr, TheValue(r.exc))
    ELSE Advance([fr EXCEPT !.locals.enhanced_prompt = r.value,
                            !.context.enhanced_prompt = r.value],
                 "text_to_image")

\* (variant: a process that records the failure and goes on)
process_image_generated_no_abort(fr, r) ==
    Advance([fr EXCEPT !.locals.image_result =
                           IF r.kind = "raise" THEN Some(PyDict({<<"image", "">>}))
                           ELSE r.value,
                       !.context =
                           IF r.kind = "raise" THEN set_error(@, TheValue(r.exc))
                           ELSE @],
            "image_saving")

\* lines 53-59, given what self._generate_image_from_text did
process_image_generated(fr, r) ==
    IF r.kind = "raise" THEN process_except(fr, TheValue(r.exc))
    ELSE LET image_result == TheValue(r.value) IN
         IF Falsy(image_result) \/ ~HasKey(image_result, "image")
         THEN process_except(fr, ImageError)
         ELSE Advance([fr EXCEPT !.locals.image_result = r.value], "image_saving")

\* (variant: a process that does not record the saved image)
process_image_saved_forgets_path(fr, r) ==
    IF r.kind = "raise" THEN process_except(fr, TheValue(r.exc))
    ELSE LET saved == TheValue(r.value) IN
         Advance([fr EXCEPT !.locals.image_path = Some(saved[1])], "image_to_3d")

\* (variant: a process that fills in image_path before it knows the outcome)
process_image_saved_writes_early(fr, r) ==
    IF r.kind = "raise"
    THEN process_except([fr EXCEPT !.context.image_path = Some("")],
                        TheValue(r.exc))
    ELSE LET saved == TheValue(r.value) IN
         Advance([fr EXCEPT !.locals.image_path = Some(saved[1]),
                            !.context.image_path = Some(saved[1]),
                            !.context.image_filename = Some(saved[2])],
                 "image_to_3d")

\* lines 60-69, given what image_utils.save_base64_image did
process_image_saved(fr, r) ==
    IF r.kind = "raise" THEN process_except(fr, TheValue(r.exc))
    ELSE LET saved == TheValue(r.value) IN
         Advance([fr EXCEPT !.locals.image_path = Some(saved[1]),
                            !.context.image_path = Some(saved[1]),
                            !.context.image_filename = Some(saved[2])],
                 "image_to_3d")

\* (variant: a process that logs the stage image_to_3d again)
process_model_generated_restage(fr, r) ==
    IF r.kind = "raise" THEN process_except(fr, TheValue(r.exc))
    ELSE [Advance([fr EXCEPT !.locals.model_result = r.value], "image_to_3d")
            EXCEPT !.pc = "model_saving"]

\* lines 71-77, given what self._generate_3d_from_image did
process_model_generated(fr, r) ==
    IF r.kind = "raise" THEN process_except(fr, TheValue(r.exc))
    ELSE LET model_result == TheValue(r.value) IN
         IF Falsy(model_result)
         THEN process_except(fr, ModelError)
         ELSE Advance([fr EXCEPT !.locals.model_result = r.value], "model_saving")

\* (variant: a process that marks the request complete in every case)
process_model_saved_always_complete(fr, r) ==
    IF r.kind = "raise"
    THEN [process_except(Advance(fr, "complete"), TheValue(r.exc))
            EXCEPT !.pc = "done"]
    ELSE LET saved == TheValue(r.value)
             done == Advance([fr EXCEPT !.context.model_path = Some(saved[1]),
                                        !.context.model_filename = Some(saved[2])],
                             "complete")
         IN [done EXCEPT !.pc = "done", !.outcome = "returned"]

\* lines 78-95, given what image_utils.save_3d_model did
process_model_saved(fr, r) ==
    IF r.kind = "raise" THEN process_except(fr, TheValue(r.exc))
    ELSE LET saved == TheValue(r.value)
             done == Advance([fr EXCEPT !.context.model_path = Some(saved[1]),
                                        !.context.model_filename = Some(saved[2])],
                             "complete")
         IN [done EXCEPT !.pc = "done", !.outcome = "returned"]


\* ------------------------------------------------------------------------
\* State
\* ------------------------------------------------------------------------
VARIABLES
    user_prompt,     \* the argument of process
    llm_service,     \* pipeline_service.llm_service: "LLMService", or the
                     \* "Mock" the unit tests patch in
    pc,              \* where process is: the stage it works on, or "done"
    context,         \* the ExecutionContext of the request
    locals,          \* process's locals
    stage_log,       \* the stages update_stage logged, in order
    outcome,         \* "running", or how process ended: "returned" | "raised"
    thrown,          \* the exception that reached process's except clause
    llm,             \* the frame of _call_llm_with_retry
    rf,              \* the frame of the running retry wrapper
    calls,           \* collaborator invocations: [name, args, stage]
    llm_log,         \* what requests.post did in each iteration of the LLM loop
    attempts,        \* what the wrapped function's collaborator did in each
                     \* iteration of the running (or last) retry wrapper call
    sleeps,          \* the arguments of time.sleep, in order
    returned,        \* what each call made by process (and the decorated func of
                     \* RetrySpec) returned or raised; None while it has not
    threads,         \* ConcSpec, SaveSpec: the state of each concurrent request
    clock,           \* SaveSpec: the wall clock, in seconds
    files,           \* SaveSpec: the files written so far: [path, by]
    memory,          \* ExecSpec: main.memory, user id -> list of interactions
    exec,            \* ExecSpec: the frame of the running call of execute
    response,        \* ExecSpec: model.response.message
    exec_calls       \* ExecSpec: the calls execute made: [name, args]

\* the variables of one call of process (Spec, RetrySpec)
procVars ==
    << user_prompt, llm_service, pc, context, locals, stage_log, outcome,
       thrown, llm, rf, calls, llm_log, attempts, sleeps, returned >>
\* the variables of concurrent requests (ConcSpec, SaveSpec)
concVars == << threads, clock, files >>
\* the variables of main.execute (ExecSpec)
execVars == << memory, exec, response, exec_calls >>

vars == << procVars, concVars, execVars >>

\* a specification leaves the variables of the others at these values
ConcIdle == threads = <<>> /\ clock = 0 /\ files = {}
ExecIdle == memory = <<>> /\ exec = <<>> /\ response = <<>> /\ exec_calls = <<>>

Frame ==
    [ pc |-> pc, context |-> context, locals |-> locals,
      stage_log |-> stage_log, outcome |-> outcome, thrown |-> thrown ]

SetFrame(fr) ==
    /\ pc' = fr.pc
    /\ context' = fr.context
    /\ locals' = fr.locals
    /\ stage_log' = fr.stage_log
    /\ outcome' = fr.outcome
    /\ thrown' = fr.thrown

Call(name, args) == [name |-> name, args |-> args, stage |-> context.stage]
\* the calls process makes, and the decorated function of RetrySpec
ProcessCalls ==
    { "enhance_prompt", "text_to_image", "save_base64_image", "image_to_3d",
      "save_3d_model" }
NothingReturned == [c \in ProcessCalls \cup {"func"} |-> None]
Returned(name, r) == returned' = [returned EXCEPT ![name] = Some(r)]

\* the number of invocations of a collaborator
CallCount(name) == Cardinality({i \in 1..Len(calls) : calls[i].name = name})

\* ------------------------------------------------------------------------
\* What the collaborators can do
\* ------------------------------------------------------------------------
RequestError == Exc("RequestException", <<"connection refused">>)
ResponseError == Exc("ValueError", <<"malformed response">>)
MockError == Exc("Exception", <<"LLM service unavailable">>)
StubError == Exc("Exception", <<"service unavailable">>)
SaveError == Exc("OSError", <<"disk full">>)

\* requests.post(...), raise_for_status(), response.json()
LLMOutcomes ==
    {Return(PyDict({<<"response", t>>})) : t \in Texts}
        \cup {Return(PyDict({})), Raise(RequestError), Raise(ResponseError)}

\* the patched llm_service.enhance_prompt of the unit tests
MockOutcomes == {Return(t) : t \in Prompts} \cup {Raise(MockError)}

\* Stub([TEXT_TO_IMAGE_APP_ID]) ... stub.call(...)
ImageOutcomes ==
    { Return(PyNone), Return(PyDict({})),
      Return(PyDict({<<"status", "failed">>})),
      Return(PyDict({<<"image", "">>})),
      Return(PyDict({<<"image", "aW1n">>})),
      Raise(StubError) }

\* Stub([IMAGE_TO_3D_APP_ID]) ... stub.call(...)
ModelOutcomes ==
    { Return(PyNone), Return(PyDict({})),
      Return(PyDict({<<"format", "glb">>})),
      Raise(StubError) }

SaveImageOutcomes == {Return(<<"/out/image.png", "image.png">>), Raise(SaveError)}
SaveModelOutcomes == {Return(<<"/out/model.glb", "model.glb">>), Raise(SaveError)}

\* ------------------------------------------------------------------------
\* Init: the service is constructed and process(user_prompt) has created
\* its context (lines 40-41)
\* ------------------------------------------------------------------------
Init ==
    /\ user_prompt \in Prompts
    /\ llm_service \in {"LLMService", "Mock"}
    /\ pc = "initialized"
    /\ context = ExecutionContext(user_prompt, None, "uuid-1", 0)
    /\ locals = NoLocals
    /\ stage_log = <<>>
    /\ outcome = "running"
    /\ thrown = None
    /\ llm = LLMFrame(LLM_MAX_RETRIES, LLM_RETRY_DELAY)
    /\ rf = NoRetryFrame
    /\ calls = <<>>
    /\ llm_log = <<>>
    /\ attempts = <<>>
    /\ sleeps = <<>>
    /\ returned = NothingReturned
    /\ ConcIdle
    /\ ExecIdle

\* the retry wrapper is entered when process reaches a generation stage
EnterWrapper(fr) ==
    IF fr.pc \in {"text_to_image", "image_to_3d"}
    THEN /\ rf' = RetryFrame(PIPELINE_MAX_ATTEMPTS, PIPELINE_DELAY, RETRY_BACKOFF)
         /\ attempts' = <<>>
    ELSE UNCHANGED <<rf, attempts>>

\* ------------------------------------------------------------------------
\* The steps of process
\* ------------------------------------------------------------------------
\* line 45, and the call of llm_service.enhance_prompt(user_prompt, correlation_id)
Begin ==
    /\ pc = "initialized"
    /\ SetFrame(process_begin(Frame))
    /\ calls' = Append(calls, [name |-> "enhance_prompt",
                               args |-> <<user_prompt, context.correlation_id>>,
                               stage |-> process_begin(Frame).context.stage])
    /\ llm' = LLMFrame(LLM_MAX_RETRIES, LLM_RETRY_DELAY)
    /\ UNCHANGED <<user_prompt, llm_service, rf, llm_log, attempts, sleeps,
                   returned>>
    /\ UNCHANGED <<concVars, execVars>>

\* enhance_prompt has returned or raised `r`: process goes on
Enhanced(r) ==
    LET fr == process_enhanced(Frame, r) IN
    /\ Returned("enhance_prompt", r)
    /\ SetFrame(fr)
    /\ EnterWrapper(fr)

\* one iteration of the loop of _call_llm_with_retry
LLMAttempt ==
    /\ pc = "prompt_enhancement"
    /\ llm_service = "LLMService"
    /\ llm.attempt < llm.max_retries
    /\ \E out \in LLMOutcomes :
         LET it == llm_iteration(llm, out) IN
         /\ calls' = Append(calls, Call("requests.post", <<user_prompt>>))
         /\ sleeps' = sleeps \o it.slept
         /\ llm' = it.frame
         /\ llm_log' = Append(llm_log, out)
         /\ IF it.result = None
            THEN UNCHANGED <<pc, context, locals, stage_log, outcome, thrown,
                             rf, attempts, returned>>
            ELSE Enhanced(enhance_prompt(user_prompt, TheValue(it.result)))
    /\ UNCHANGED <<user_prompt, llm_service>>
    /\ UNCHANGED <<concVars, execVars>>

\* the loop of _call_llm_with_retry is over: it raises, enhance_prompt falls back
LLMExhausted ==
    /\ pc = "prompt_enhancement"
    /\ llm_service = "LLMService"
    /\ llm.attempt >= llm.max_retries
    /\ Enhanced(enhance_prompt(user_prompt, llm_exhausted(llm)))
    /\ UNCHANGED <<user_prompt, llm_service, llm, calls, llm_log, sleeps>>
    /\ UNCHANGED <<concVars, execVars>>

\* the patched enhance_prompt returns or raises
MockEnhance ==
    /\ pc = "prompt_enhancement"
    /\ llm_service = "Mock"
    /\ \E r \in MockOutcomes : Enhanced(r)
    /\ UNCHANGED <<user_prompt, llm_service, llm, calls, llm_log, sleeps>>
    /\ UNCHANGED <<concVars, execVars>>

\* the retry wrapper of _generate_image_from_text has returned or raised `r`
ImageGenerated(r) ==
    /\ SetFrame(process_image_generated(Frame, r))
    /\ Returned("text_to_image", r)

\* one iteration of the wrapper's loop around _generate_image_from_text
ImageAttempt ==
    /\ pc = "text_to_image"
    /\ rf.attempt < rf.max_attempts
    /\ \E out \in ImageOutcomes :
         LET it == retry_iteration(rf, generate_image_from_text(out)) IN
         /\ calls' = Append(calls, Call("text_to_image",
                                        <<locals.enhanced_prompt>>))
         /\ attempts' = Append(attempts, out)
         /\ sleeps' = sleeps \o it.slept
         /\ rf' = it.frame
         /\ IF it.result = None
            THEN UNCHANGED <<pc, context, locals, stage_log, outcome, thrown,
                             returned>>
            ELSE ImageGenerated(TheValue(it.result))
    /\ UNCHANGED <<user_prompt, llm_service, llm, llm_log>>
    /\ UNCHANGED <<concVars, execVars>>

\* the wrapper's loop is over: `raise last_exception`
ImageExhausted ==
    /\ pc = "text_to_image"
    /\ rf.attempt >= rf.max_attempts
    /\ ImageGenerated(retry_exhausted(rf))
    /\ UNCHANGED <<user_prompt, llm_service, llm, rf, calls, llm_log, attempts,
                   sleeps>>
    /\ UNCHANGED <<concVars, execVars>>

\* image_utils.save_base64_image(image_result["image"], enhanced_prompt, "text2img")
SaveImage ==
    /\ pc = "image_saving"
    /\ \E out \in SaveImageOutcomes :
         LET fr == process_image_saved(Frame, out) IN
         /\ calls' = Append(calls, Call("save_base64_image",
                <<GetItem(TheValue(locals.image_result), "image"),
                  locals.enhanced_prompt, "text2img">>))
         /\ Returned("save_base64_image", out)
         /\ SetFrame(fr)
         /\ EnterWrapper(fr)
    /\ UNCHANGED <<user_prompt, llm_service, llm, llm_log, sleeps>>
    /\ UNCHANGED <<concVars, execVars>>

\* the retry wrapper of _generate_3d_from_image has returned or raised `r`
ModelGenerated(r) ==
    /\ SetFrame(process_model_generated(Frame, r))
    /\ Returned("image_to_3d", r)

\* one iteration of the wrapper's loop around _generate_3d_from_image
ModelAttempt ==
    /\ pc = "image_to_3d"
    /\ rf.attempt < rf.max_attempts
    /\ \E out \in ModelOutcomes :
         LET it == retry_iteration(rf, generate_3d_from_image(out)) IN
         /\ calls' = Append(calls, Call("image_to_3d",
                <<GetItem(TheValue(locals.image_result), "image")>>))
         /\ attempts' = Append(attempts, out)
         /\ sleeps' = sleeps \o it.slept
         /\ rf' = it.frame
         /\ IF it.result = None
            THEN UNCHANGED <<pc, context, locals, stage_log, outcome, thrown,
                             returned>>
            ELSE ModelGenerated(TheValue(it.result))
    /\ UNCHANGED <<user_prompt, llm_service, llm, llm_log>>
    /\ UNCHANGED <<concVars, execVars>>

\* the wrapper's loop is over: `raise last_exception`
ModelExhausted ==
    /\ pc = "image_to_3d"
    /\ rf.attempt >= rf.max_attempts
    /\ ModelGenerated(retry_exhausted(rf))
    /\ UNCHANGED <<user_prompt, llm_service, llm, rf, calls, llm_log, attempts,
                   sleeps>>
    /\ UNCHANGED <<concVars, execVars>>

\* image_utils.save_3d_model(model_result, enhanced_prompt, image_path, "model")
SaveModel ==
    /\ pc = "model_saving"
    /\ \E out \in SaveModelOutcomes :
         /\ calls' = Append(calls, Call("save_3d_model",
                <<locals.model_result, locals.enhanced_prompt,
                  locals.image_path, "model">>))
         /\ Returned("save_3d_model", out)
         /\ SetFrame(process_model_saved(Frame, out))
    /\ UNCHANGED <<user_prompt, llm_service, llm, rf, llm_log, attempts, sleeps>>
    /\ UNCHANGED <<concVars, execVars>>

Next ==
    \/ Begin
    \/ LLMAttempt
    \/ LLMExhausted
    \/ MockEnhance
    \/ ImageAttempt
    \/ ImageExhausted
    \/ SaveImage
    \/ ModelAttempt
    \/ ModelExhausted
    \/ SaveModel

Spec == Init /\ [][Next]_vars


\* ------------------------------------------------------------------------
\* RetrySpec: one call of a function decorated with
\* retry(max_attempts, delay, backoff), for any parameters
\* ------------------------------------------------------------------------
DelayValues == {1, 2}
BackoffValues == {1, 2, 3}

\* what the decorated function can do in one attempt
FuncOutcomes ==
    { Return("success"), Return("other"),
      Raise(Exc("ValueError", <<"First failure">>)),
      Raise(Exc("ValueError", <<"Second failure">>)),
      Raise(Exc("Exception", <<"Persistent error">>)) }

InitRetry ==
    /\ user_prompt = <<>>
    /\ llm_service = "LLMService"
    /\ pc = "retry"
    /\ context = ExecutionContext(user_prompt, None, "uuid-1", 0)
    /\ locals = NoLocals
    /\ stage_log = <<>>
    /\ outcome = "running"
    /\ thrown = None
    /\ llm = LLMFrame(LLM_MAX_RETRIES, LLM_RETRY_DELAY)
    /\ \E m \in (-1)..MaxAttemptsBound, d \in DelayValues, b \in BackoffValues :
         rf = RetryFrame(m, d, b)
    /\ calls = <<>>
    /\ llm_log = <<>>
    /\ attempts = <<>>
    /\ sleeps = <<>>
    /\ returned = NothingReturned
    /\ ConcIdle
    /\ ExecIdle

\* one iteration of wrapper's loop
RetryAttempt ==
    /\ pc = "retry"
    /\ rf.attempt < rf.max_attempts
    /\ \E out \in FuncOutcomes :
         LET it == retry_iteration(rf, out) IN
         /\ calls' = Append(calls, Call("func", <<>>))
         /\ attempts' = Append(attempts, out)
         /\ sleeps' = sleeps \o it.slept
         /\ rf' = it.frame
         /\ returned' = [returned EXCEPT !["func"] = it.result]
         /\ pc' = IF it.result = None THEN "retry" ELSE "retry_done"
    /\ UNCHANGED <<user_prompt, llm_service, context, locals, stage_log, outcome,
                   thrown, llm, llm_log>>
    /\ UNCHANGED <<concVars, execVars>>

\* wrapper's loop is over: `raise last_exception`
RetryExhausted ==
    /\ pc = "retry"
    /\ rf.attempt >= rf.max_attempts
    /\ Returned("func", retry_exhausted(rf))
    /\ pc' = "retry_done"
    /\ UNCHANGED <<user_prompt, llm_service, context, locals, stage_log, outcome,
                   thrown, llm, rf, calls, llm_log, attempts, sleeps>>
    /\ UNCHANGED <<concVars, execVars>>

NextRetry == RetryAttempt \/ RetryExhausted

RetrySpec == InitRetry /\ [][NextRetry]_vars


\* ------------------------------------------------------------------------
\* Properties of process (Spec)
\* ------------------------------------------------------------------------
Done == pc = "done"
IsReturn(o) == o # None /\ TheValue(o).kind = "return"
IsRaise(o) == o # None /\ TheValue(o).kind = "raise"
RaisedExc(o) == TheValue(TheValue(o).exc)
ReturnedValue(o) == TheValue(TheValue(o).value)

\* the stage in which process makes a call
StageOf(name) ==
    CASE name \in {"enhance_prompt", "requests.post"} -> "prompt_enhancement"
      [] name = "text_to_image" -> "text_to_image"
      [] name = "save_base64_image" -> "image_saving"
      [] name = "image_to_3d" -> "image_to_3d"
      [] name = "save_3d_model" -> "model_saving"

LastCall == calls[Len(calls)]

\* C1: process is total: whatever the collaborators do, it never raises to
\* its caller, it is never stuck before its end, and at its end it has
\* returned the context.
C1_ProcessTotal ==
    /\ outcome # "raised"
    /\ Done => outcome = "returned"
    /\ ~Done => outcome = "running" /\ ENABLED Next

\* a save step raised an OSError and process returned all the same
C1_Witness ==
    /\ Done
    /\ outcome = "returned"
    /\ IsRaise(returned["save_3d_model"])
    /\ RaisedExc(returned["save_3d_model"]).cls = "OSError"

\* C2: the context process returns has exactly one of: error set,
\* stage == "complete".
C2_ErrorXorComplete ==
    Done => ((context.error # None) # (context.stage = "complete"))

C2_Witness ==
    /\ Done
    /\ context.error # None
    /\ context.stage = "image_saving"

\* C3: the stages written by update_stage are strictly increasing in the
\* stage order, from "initialized" on; nothing is written while an adapter
\* retries (a write would show in the log).
C3_StagesIncrease ==
    /\ \A i \in 1..Len(stage_log) :
         StageIndex(stage_log[i]) >
             (IF i = 1 THEN StageIndex("initialized")
              ELSE StageIndex(stage_log[i - 1]))
    /\ context.stage = (IF stage_log = <<>> THEN "initialized"
                        ELSE stage_log[Len(stage_log)])

\* the image-to-3D adapter is in its third attempt
C3_Witness ==
    /\ pc = "image_to_3d"
    /\ rf.attempt = 2
    /\ Len(sleeps) >= 2
    /\ Len(stage_log) = 4

\* a call of process raised
StageRaised == \E c \in ProcessCalls : IsRaise(returned[c])
FailedCall == CHOOSE c \in ProcessCalls : IsRaise(returned[c])

\* C4: once a call of a stage raises, the error is that exception, the
\* stage is the one of the failing call, process has returned, and no
\* collaborator of a later stage was or will be invoked; when the
\* enhance-prompt adapter itself raises, the stage is "prompt_enhancement",
\* the message is the raised message and no service or save step is called.
C4_FailureStops ==
    /\ StageRaised =>
         /\ Done /\ outcome = "returned"
         /\ ~ENABLED Next
         /\ context.error = Some(RaisedExc(returned[FailedCall]))
         /\ context.stage = StageOf(FailedCall)
         /\ context.stage = LastCall.stage
         /\ \A i \in 1..Len(calls) :
              StageIndex(StageOf(calls[i].name)) <= StageIndex(context.stage)
    /\ IsRaise(returned["enhance_prompt"]) =>
         /\ context.stage = "prompt_enhancement"
         /\ StrExc(TheValue(context.error))
                = StrExc(RaisedExc(returned["enhance_prompt"]))
         /\ \A i \in 1..Len(calls) : calls[i].name = "enhance_prompt"

\* the patched enhance_prompt raised "LLM service unavailable"
C4_Witness ==
    /\ llm_service = "Mock"
    /\ IsRaise(returned["enhance_prompt"])
    /\ StrExc(TheValue(context.error)) = <<"LLM service unavailable">>


\* the arguments of the calls of a collaborator
ArgsOf(name) == {calls[i].args : i \in {j \in 1..Len(calls) : calls[j].name = name}}

\* the language-model request failed in every iteration that was made
LLMAlwaysFailed ==
    /\ llm_service = "LLMService"
    /\ returned["enhance_prompt"] # None
    /\ llm_log # <<>>
    /\ \A i \in 1..Len(llm_log) : llm_log[i].kind = "raise"

\* C5: when the language-model collaborator fails on every attempt, no
\* error is recorded for the enhancement stage: enhance_prompt returns the
\* original prompt, enhanced_prompt is the original prompt, the stage is past
\* prompt_enhancement and the text-to-image adapter is called with the
\* original prompt.
C5_EnhanceDegrades ==
    LLMAlwaysFailed =>
        /\ returned["enhance_prompt"] = Some(Return(user_prompt))
        /\ context.enhanced_prompt = Some(user_prompt)
        /\ StageIndex(context.stage) > StageIndex("prompt_enhancement")
        /\ context.error # None => context.stage # "prompt_enhancement"
        /\ ArgsOf("text_to_image") \subseteq {<<Some(user_prompt)>>}
        /\ Done => ArgsOf("text_to_image") = {<<Some(user_prompt)>>}

\* three request errors in a row, a prompt that strip() would change, and
\* the pipeline completed with it
C5_Witness ==
    /\ LLMAlwaysFailed
    /\ Len(llm_log) = LLM_MAX_RETRIES
    /\ user_prompt = <<" ">>
    /\ Done
    /\ context.stage = "complete"

\* a dict without the key "image"
NoImageMap(out) ==
    /\ out.kind = "return"
    /\ ~TheValue(out.value).none
    /\ ~HasKey(TheValue(out.value), "image")

\* C6: when the image collaborator returns a map without an image key on
\* every attempt, process returns a context with the error "Failed to
\* generate image from text", stage "text_to_image", no image_path, and
\* neither save step was invoked.
C6_NoImageFails ==
    ( /\ Done
      /\ LastCall.name = "text_to_image"
      /\ \A i \in 1..Len(attempts) : NoImageMap(attempts[i]) )
    =>  /\ outcome = "returned"
        /\ context.error # None
        /\ MsgContains(TheValue(context.error), "Failed to generate image from text")
        /\ context.stage = "text_to_image"
        /\ context.image_path = None
        /\ CallCount("save_base64_image") = 0
        /\ CallCount("save_3d_model") = 0

C6_Witness ==
    /\ Done
    /\ LastCall.name = "text_to_image"
    /\ attempts = << Return(PyDict({})), Return(PyDict({<<"status", "failed">>})),
                     Return(PyDict({})) >>

\* None or an empty dict
EmptyResult(out) == out.kind = "return" /\ Falsy(TheValue(out.value))

\* C7: after a valid image and a successful image save, when the model
\* collaborator returns None or an empty result on every attempt, process
\* returns a context with the error "Failed to generate 3D model from
\* image", stage "image_to_3d", no model_path, image_path still the saved
\* image's path, and save_3d_model was not invoked.
C7_NoModelFails ==
    ( /\ Done
      /\ IsReturn(returned["text_to_image"])
      /\ IsReturn(returned["save_base64_image"])
      /\ LastCall.name = "image_to_3d"
      /\ \A i \in 1..Len(attempts) : EmptyResult(attempts[i]) )
    =>  /\ outcome = "returned"
        /\ context.error # None
        /\ MsgContains(TheValue(context.error),
                       "Failed to generate 3D model from image")
        /\ context.stage = "image_to_3d"
        /\ context.model_path = None
        /\ context.image_path = Some(ReturnedValue(returned["save_base64_image"])[1])
        /\ CallCount("save_3d_model") = 0

C7_Witness ==
    /\ Done
    /\ LastCall.name = "image_to_3d"
    /\ attempts = << Return(PyNone), Return(PyDict({})), Return(PyNone) >>
    /\ context.image_path = Some("/out/image.png")

\* every collaborator succeeded on its first attempt
AllSucceedFirst ==
    /\ \A c \in ProcessCalls : IsReturn(returned[c])
    /\ \A c \in ProcessCalls : CallCount(c) = 1
    /\ llm_service = "LLMService" =>
         Len(llm_log) = 1 /\ llm_log[1].kind = "return"

\* C8: when every collaborator succeeds on its first attempt, process
\* returns a context with stage "complete", no error, enhanced_prompt the
\* text enhance_prompt returned, image_path and image_filename as
\* save_base64_image returned them, model_path and model_filename as
\* save_3d_model returned them.
C8_SuccessResult ==
    (Done /\ AllSucceedFirst) =>
        /\ outcome = "returned"
        /\ context.stage = "complete"
        /\ context.error = None
        /\ context.enhanced_prompt = Some(ReturnedValue(returned["enhance_prompt"]))
        /\ context.image_path = Some(ReturnedValue(returned["save_base64_image"])[1])
        /\ context.image_filename = Some(ReturnedValue(returned["save_base64_image"])[2])
        /\ context.model_path = Some(ReturnedValue(returned["save_3d_model"])[1])
        /\ context.model_filename = Some(ReturnedValue(returned["save_3d_model"])[2])

\* the language model answered " a" (enhanced to "a") for the prompt " "
C8_Witness ==
    /\ Done
    /\ AllSucceedFirst
    /\ llm_service = "LLMService"
    /\ user_prompt = <<" ">>
    /\ llm_log = <<Return(PyDict({<<"response", <<" ", "a">> >>}))>>
    /\ context.enhanced_prompt = Some(<<"a">>)
    /\ context.model_filename = Some("model.glb")

\* ------------------------------------------------------------------------
\* Properties of the retry wrapper (RetrySpec)
\* ------------------------------------------------------------------------
RetryDone == pc = "retry_done"

\* C9: with max_attempts=3, delay=2, backoff=2, when func fails on attempts
\* 0 and 1 and succeeds on attempt 2, func is invoked exactly 3 times, the
\* wrapper returns the third attempt's result and the suspensions are 2
\* then 4; for any parameters the wait after failed attempt k is
\* delay * backoff^k.
C9_Backoff ==
    /\ ( /\ rf.max_attempts = 3 /\ rf.delay = 2 /\ rf.backoff = 2
         /\ Len(attempts) = 3
         /\ attempts[1].kind = "raise"
         /\ attempts[2].kind = "raise"
         /\ attempts[3].kind = "return" )
       =>  /\ RetryDone
           /\ CallCount("func") = 3
           /\ returned["func"] = Some(attempts[3])
           /\ sleeps = <<2, 4>>
    /\ \A k \in 1..Len(sleeps) : sleeps[k] = rf.delay * Pow(rf.backoff, k - 1)

C9_Witness ==
    /\ rf.max_attempts = 3 /\ rf.delay = 2 /\ rf.backoff = 2
    /\ attempts = << Raise(Exc("ValueError", <<"First failure">>)),
                     Raise(Exc("ValueError", <<"Second failure">>)),
                     Return("success") >>
    /\ RetryDone

\* every attempt made so far failed
AllAttemptsFailed == \A i \in 1..Len(attempts) : attempts[i].kind = "raise"

\* C10: with max_attempts >= 1, when every attempt fails, func is invoked
\* exactly max_attempts times, max_attempts - 1 suspensions occur (none
\* after the final attempt) and the wrapper raises the failure of the final
\* attempt itself.
C10_AllFail ==
    (rf.max_attempts >= 1 /\ AllAttemptsFailed) =>
        /\ ~RetryDone =>
             /\ ENABLED NextRetry
             /\ Len(sleeps) = Len(attempts) \/ Len(attempts) = rf.max_attempts
        /\ RetryDone =>
             /\ Len(attempts) = rf.max_attempts
             /\ CallCount("func") = rf.max_attempts
             /\ Len(sleeps) = rf.max_attempts - 1
             /\ returned["func"] = Some(attempts[rf.max_attempts])

\* four attempts failed, each with its own failure
C10_Witness ==
    /\ RetryDone
    /\ rf.max_attempts = 4
    /\ AllAttemptsFailed
    /\ attempts[1] # attempts[4]
    /\ attempts[3] # attempts[4]
    /\ returned["func"] = Some(attempts[4])


\* C11: as soon as an attempt succeeds the wrapper returns its result and
\* func is not invoked again; a func that succeeds on its first attempt is
\* invoked exactly once and the wrapper never sleeps.
C11_SuccessReturns ==
    /\ \A i \in 1..Len(attempts) :
         attempts[i].kind = "return" =>
             /\ i = Len(attempts)
             /\ RetryDone
             /\ ~ENABLED NextRetry
             /\ returned["func"] = Some(attempts[i])
    /\ (attempts # <<>> /\ attempts[1].kind = "return") =>
         /\ CallCount("func") = 1
         /\ sleeps = <<>>

\* func succeeded on its second attempt of four
C11_Witness ==
    /\ rf.max_attempts = 4
    /\ Len(attempts) = 2
    /\ attempts[2] = Return("other")
    /\ returned["func"] = Some(Return("other"))


SaveSteps == {"save_base64_image", "save_3d_model"}

\* C12: when a save step raises, process has invoked that save collaborator
\* exactly once, the context's error is the exception, the stage is the
\* save stage, and no later stage runs.
C12_SaveFailure ==
    \A c \in SaveSteps :
        IsRaise(returned[c]) =>
            /\ CallCount(c) = 1
            /\ Done /\ outcome = "returned"
            /\ ~ENABLED Next
            /\ context.error = Some(RaisedExc(returned[c]))
            /\ context.stage = StageOf(c)
            /\ context.stage \in {"image_saving", "model_saving"}
            /\ \A i \in 1..Len(calls) :
                 StageIndex(StageOf(calls[i].name)) <= StageIndex(StageOf(c))

\* save_3d_model raised after both generation stages needed retries
C12_Witness ==
    /\ IsRaise(returned["save_3d_model"])
    /\ context.stage = "model_saving"
    /\ context.error = Some(SaveError)
    /\ CallCount("text_to_image") = 2
    /\ CallCount("image_to_3d") = 3


\* the result fields of the context, the call that yields each and the part
\* of the call's value that is stored
ResultFields == {"enhanced_prompt", "image_path", "model_path"}
CallOfField(f) ==
    CASE f = "enhanced_prompt" -> "enhance_prompt"
      [] f = "image_path" -> "save_base64_image"
      [] f = "model_path" -> "save_3d_model"
StoredValue(f, r) ==
    IF f = "enhanced_prompt" THEN ReturnedValue(r) ELSE ReturnedValue(r)[1]

\* in every state: a field that is set holds what its call returned, and a
\* call that raised left its field unset
C13_FieldsFromSuccess ==
    \A f \in ResultFields :
        /\ context[f] # None =>
             /\ IsReturn(returned[CallOfField(f)])
             /\ context[f] = Some(StoredValue(f, returned[CallOfField(f)]))
        /\ IsRaise(returned[CallOfField(f)]) => context[f] = None

\* in every step: a field changes only from unset, in a step that starts in
\* the field's own stage and in which the field's call returns
C13_FieldWrittenInStage ==
    \A f \in ResultFields :
        context'[f] # context[f] =>
            /\ context[f] = None
            /\ context.stage = StageOf(CallOfField(f))
            /\ returned[CallOfField(f)] = None
            /\ IsReturn(returned'[CallOfField(f)])

\* C13: enhanced_prompt, image_path and model_path are each written at most
\* once, only while the stage is the field's own stage and only after that
\* stage's call returned successfully; a failing stage never writes its
\* field.
C13_FieldsWrittenOnce ==
    [](C13_FieldsFromSuccess) /\ [][C13_FieldWrittenInStage]_vars

\* all three fields are written
C13_Witness ==
    /\ Done
    /\ context.enhanced_prompt = Some(<<"a", "a">>)
    /\ context.image_path = Some("/out/image.png")
    /\ context.model_path = Some("/out/model.glb")


\* a result the adapters reject: for text-to-image a None, an empty dict or a
\* dict without "image"; for image-to-3D a None or an empty dict
ImageViolation(out) ==
    out.kind = "return"
        /\ (Falsy(TheValue(out.value)) \/ ~HasKey(TheValue(out.value), "image"))
ModelViolation(out) == EmptyResult(out)

\* the calls of the two generation services
ExternalCallCount == CallCount("text_to_image") + CallCount("image_to_3d")

\* C14: when a generation collaborator returns a contract-violating result,
\* process invokes it exactly once for the request: 1 external call in total
\* for a text-to-image violation, 2 in total for an image-to-3D violation.
C14_ViolationCalledOnce ==
    calls # <<>> =>
        /\ ( /\ LastCall.name = "text_to_image"
             /\ \E i \in 1..Len(attempts) : ImageViolation(attempts[i]) )
           => ExternalCallCount = 1
        /\ ( /\ LastCall.name = "image_to_3d"
             /\ \E i \in 1..Len(attempts) : ModelViolation(attempts[i]) )
           => ExternalCallCount = 2


\* a result map whose "image" value is present but empty
EmptyImage(out) ==
    /\ out.kind = "return"
    /\ HasKey(TheValue(out.value), "image")
    /\ GetItem(TheValue(out.value), "image") = ""

\* C15: an empty image payload is treated like a missing one: the adapter
\* never hands a map with an empty image back to process (it raises, so that
\* process can only end with an error at text_to_image), and
\* save_base64_image is never invoked with it.
C15_EmptyImageFails ==
    /\ returned["text_to_image"] # None
          => ~EmptyImage(TheValue(returned["text_to_image"]))
    /\ \A a \in ArgsOf("save_base64_image") : a[1] # ""
    /\ (Done /\ returned["text_to_image"] # None
             /\ EmptyImage(TheValue(returned["text_to_image"])))
          => context.error # None /\ context.stage = "text_to_image"


\* what the Retry Policy prescribes for three failed attempts with the
\* pipeline defaults: a wait of 2s, then of 4s, none after the last attempt
PolicySleeps == <<PIPELINE_DELAY, PIPELINE_DELAY * RETRY_BACKOFF>>

\* C16: every stage adapter, the enhance-prompt adapter included, follows the
\* Retry Policy with the pipeline defaults: after three consecutive failed
\* attempts of an adapter there have been exactly two suspensions, of 2s and
\* 4s, and none after the final failed attempt. (Stated where the suspensions
\* recorded so far are those of the one adapter: the LLM loop before any
\* generation call; the image wrapper behind a patched LLM service; the model
\* wrapper behind a patched LLM service and a first-attempt image.)
C16_AdaptersFollowPolicy ==
    /\ ( /\ llm_service = "LLMService"
         /\ llm.attempt = LLM_MAX_RETRIES
         /\ CallCount("text_to_image") = 0 )
       => sleeps = PolicySleeps
    /\ ( /\ llm_service = "Mock"
         /\ pc = "text_to_image"
         /\ rf.attempt = PIPELINE_MAX_ATTEMPTS )
       => sleeps = PolicySleeps
    /\ ( /\ llm_service = "Mock"
         /\ CallCount("text_to_image") = 1
         /\ pc = "image_to_3d"
         /\ rf.attempt = PIPELINE_MAX_ATTEMPTS )
       => sleeps = PolicySleeps


\* an attempt of a generation stage that failed: the collaborator raised or
\* returned a contract-violating result
FailedAttempt(g, out) ==
    \/ out.kind = "raise"
    \/ IF g = "text_to_image" THEN ImageViolation(out) ELSE ModelViolation(out)

\* the stage that follows a generation stage, and the local that keeps its result
NextStage(g) == IF g = "text_to_image" THEN "image_saving" ELSE "model_saving"
ResultLocal(g) ==
    IF g = "text_to_image" THEN locals.image_result ELSE locals.model_result

Requests == {"r1", "r2"}

\* what the collaborators do in ConcSpec
ConcLLMOutcomes == {Return(PyDict({<<"response", <<"a">> >>})), Raise(RequestError)}
ConcImageOutcomes == {Return(PyDict({<<"image", "aW1n">>})), Raise(StubError)}
ConcModelOutcomes == {Return(PyDict({<<"format", "glb">>})), Return(PyNone)}

\* process(user_prompt) has created its context (lines 40-41); `wait` is the
\* time the thread still spends in time.sleep
NewThread(r) ==
    [ fr |-> [ pc |-> "initialized",
               context |-> ExecutionContext(<<"a">>, None, r, 0),
               locals |-> NoLocals, stage_log |-> <<>>,
               outcome |-> "running", thrown |-> None ],
      llm |-> LLMFrame(LLM_MAX_RETRIES, LLM_RETRY_DELAY),
      rf |-> NoRetryFrame,
      wait |-> 0 ]

\* the values of the variables of one call of process in the other specifications
ProcIdle ==
    /\ user_prompt = <<>>
    /\ llm_service = "LLMService"
    /\ pc = "idle"
    /\ context = ExecutionContext(user_prompt, None, "uuid-1", 0)
    /\ locals = NoLocals
    /\ stage_log = <<>>
    /\ outcome = "running"
    /\ thrown = None
    /\ llm = LLMFrame(LLM_MAX_RETRIES, LLM_RETRY_DELAY)
    /\ rf = NoRetryFrame
    /\ calls = <<>>
    /\ llm_log = <<>>
    /\ attempts = <<>>
    /\ sleeps = <<>>
    /\ returned = NothingReturned

InitConc ==
    /\ threads = [r \in Requests |-> NewThread(r)]
    /\ clock = 0
    /\ files = {}
    /\ ProcIdle
    /\ ExecIdle

\* (variant: a sleep that stops every thread of the process)
CanRun_process_wide(r) == \A q \in Requests : threads[q].wait = 0

\* time.sleep(d) suspends the calling thread only, until d seconds have passed
CanRun(r) == threads[r].wait = 0

\* time.sleep(slept[1]), when the iteration sleeps
WaitAfter(slept) == IF slept = <<>> THEN 0 ELSE slept[1]

\* the wrapper frame of the thread once process is in frame `fr`
WrapperAt(fr, t) ==
    IF fr.pc \in {"text_to_image", "image_to_3d"}
    THEN RetryFrame(PIPELINE_MAX_ATTEMPTS, PIPELINE_DELAY, RETRY_BACKOFF)
    ELSE t.rf

SetThread(r, t) == threads' = [threads EXCEPT ![r] = t]
Running(r, stage) == threads[r].fr.pc = stage /\ CanRun(r)

\* line 45
CBegin(r) ==
    /\ Running(r, "initialized")
    /\ SetThread(r, [threads[r] EXCEPT !.fr = process_begin(@)])
    /\ UNCHANGED <<clock, files, procVars, execVars>>

\* enhance_prompt has returned or raised `res` in thread r
CEnhanced(r, t, res) ==
    LET fr == process_enhanced(t.fr, res) IN
    SetThread(r, [t EXCEPT !.fr = fr, !.rf = WrapperAt(fr, t)])

\* one iteration of the loop of _call_llm_with_retry
CLLMAttempt(r) ==
    LET t == threads[r] IN
    /\ Running(r, "prompt_enhancement")
    /\ t.llm.attempt < t.llm.max_retries
    /\ \E out \in ConcLLMOutcomes :
         LET it == llm_iteration(t.llm, out) IN
         IF it.result = None
         THEN SetThread(r, [t EXCEPT !.llm = it.frame,
                                     !.wait = WaitAfter(it.slept)])
         ELSE CEnhanced(r, t, enhance_prompt(t.fr.context.user_prompt,
                                             TheValue(it.result)))
    /\ UNCHANGED <<clock, files, procVars, execVars>>

\* the loop of _call_llm_with_retry is over
CLLMExhausted(r) ==
    LET t == threads[r] IN
    /\ Running(r, "prompt_enhancement")
    /\ t.llm.attempt >= t.llm.max_retries
    /\ CEnhanced(r, t, enhance_prompt(t.fr.context.user_prompt,
                                      llm_exhausted(t.llm)))
    /\ UNCHANGED <<clock, files, procVars, execVars>>

\* one iteration of the wrapper's loop around _generate_image_from_text
CImageAttempt(r) ==
    LET t == threads[r] IN
    /\ Running(r, "text_to_image")
    /\ t.rf.attempt < t.rf.max_attempts
    /\ \E out \in ConcImageOutcomes :
         LET it == retry_iteration(t.rf, generate_image_from_text(out)) IN
         SetThread(r, [t EXCEPT
            !.rf = it.frame,
            !.wait = WaitAfter(it.slept),
            !.fr = IF it.result = None THEN @
                   ELSE process_image_generated(@, TheValue(it.result))])
    /\ UNCHANGED <<clock, files, procVars, execVars>>

CImageExhausted(r) ==
    LET t == threads[r] IN
    /\ Running(r, "text_to_image")
    /\ t.rf.attempt >= t.rf.max_attempts
    /\ SetThread(r, [t EXCEPT !.fr = process_image_generated(@, retry_exhausted(t.rf))])
    /\ UNCHANGED <<clock, files, procVars, execVars>>

\* image_utils.save_base64_image(image_result["image"], enhanced_prompt, "text2img")
CSaveImage(r) ==
    LET t == threads[r] IN
    /\ Running(r, "image_saving")
    /\ \E out \in SaveImageOutcomes :
         LET fr == process_image_saved(t.fr, out) IN
         SetThread(r, [t EXCEPT !.fr = fr, !.rf = WrapperAt(fr, t)])
    /\ UNCHANGED <<clock, files, procVars, execVars>>

\* one iteration of the wrapper's loop around _generate_3d_from_image
CModelAttempt(r) ==
    LET t == threads[r] IN
    /\ Running(r, "image_to_3d")
    /\ t.rf.attempt < t.rf.max_attempts
    /\ \E out \in ConcModelOutcomes :
         LET it == retry_iteration(t.rf, generate_3d_from_image(out)) IN
         SetThread(r, [t EXCEPT
            !.rf = it.frame,
            !.wait = WaitAfter(it.slept),
            !.fr = IF it.result = None THEN @
                   ELSE process_model_generated(@, TheValue(it.result))])
    /\ UNCHANGED <<clock, files, procVars, execVars>>

CModelExhausted(r) ==
    LET t == threads[r] IN
    /\ Running(r, "image_to_3d")
    /\ t.rf.attempt >= t.rf.max_attempts
    /\ SetThread(r, [t EXCEPT !.fr = process_model_generated(@, retry_exhausted(t.rf))])
    /\ UNCHANGED <<clock, files, procVars, execVars>>

\* image_utils.save_3d_model(model_result, enhanced_prompt, image_path, "model")
CSaveModel(r) ==
    LET t == threads[r] IN
    /\ Running(r, "model_saving")
    /\ \E out \in SaveModelOutcomes :
         SetThread(r, [t EXCEPT !.fr = process_model_saved(@, out)])
    /\ UNCHANGED <<clock, files, procVars, execVars>>

\* the next step of the call of process in thread r
Step(r) ==
    \/ CBegin(r)
    \/ CLLMAttempt(r)
    \/ CLLMExhausted(r)
    \/ CImageAttempt(r)
    \/ CImageExhausted(r)
    \/ CSaveImage(r)
    \/ CModelAttempt(r)
    \/ CModelExhausted(r)
    \/ CSaveModel(r)

\* a second passes for the threads that sleep
Tick ==
    /\ \E r \in Requests : threads[r].wait > 0
    /\ threads' = [r \in Requests |->
                     [threads[r] EXCEPT !.wait = IF @ > 0 THEN @ - 1 ELSE 0]]
    /\ UNCHANGED <<clock, files, procVars, execVars>>

NextConc == Tick \/ \E r \in Requests : Step(r)

ConcSpec == InitConc /\ [][NextConc]_vars


\* ------------------------------------------------------------------------
\* Properties of concurrent calls of process (ConcSpec)
\* ------------------------------------------------------------------------
Sleeping(r) == threads[r].wait > 0
Terminal(r) == threads[r].fr.pc = "done"

\* C18: with two calls of process running concurrently, a retry back-off
\* suspension in one request never prevents the other from taking its next
\* step: while one request sleeps, a request that is neither sleeping nor
\* finished can take its next step, and a request that is not finished can
\* either step or let its own sleep pass.
C18_SleepDoesNotBlock ==
    \A r \in Requests : \A q \in Requests \ {r} :
        /\ (Sleeping(r) /\ ~Sleeping(q) /\ ~Terminal(q)) => ENABLED Step(q)
        /\ (Sleeping(r) /\ ~Terminal(q)) => ENABLED (Step(q) \/ Tick)

\* r1 has just begun the 4s sleep after its second failed image attempt and
\* r2 is about to save its model
C18_Witness ==
    /\ threads["r1"].fr.pc = "text_to_image"
    /\ threads["r1"].rf.attempt = 2
    /\ threads["r1"].wait = 4
    /\ threads["r2"].fr.pc = "model_saving"


\* ------------------------------------------------------------------------
\* SaveSpec: two requests save their image and then their model through one
\* ImageUtils (one images directory, one models directory, one wall clock)
\* ------------------------------------------------------------------------
MaxClock == 3

\* datetime.now(): the wall clock's second and a sub-second part
Micros == {0, 500000}
Now(micro) == [second |-> clock, micro |-> micro]

\* strftime("%Y%m%d_%H%M%S"): the time to the second
strftime(now) == ToString(now.second)

\* Path.with_suffix
with_suffix(path, suffix) == [path EXCEPT ![Len(path)] = suffix]

\* base64 payloads, as the parts around the first ","
Payloads == { <<"aW1n">>, <<"data:image/png;base64", ",", "aW1n">>, <<"a">> }

\* `if "," in base64_data: base64_data = base64_data.split(",", 1)[1]`
strip_data_url(base64_data) ==
    IF \E i \in 1..Len(base64_data) : base64_data[i] = ","
    THEN LET i == CHOOSE j \in 1..Len(base64_data) :
                    /\ base64_data[j] = ","
                    /\ \A k \in 1..(j - 1) : base64_data[k] # ","
         IN SubSeq(base64_data, i + 1, Len(base64_data))
    ELSE base64_data

\* base64.b64decode: "aW1n" is b"img"; "a" has incorrect padding
b64decode(data) ==
    IF data = <<"aW1n">> THEN Return("img")
    ELSE IF data = <<>> THEN Return("")
    ELSE Raise(Exc("binascii.Error", <<"Incorrect padding">>))

\* ImageUtils.save_base64_image: the (filepath, filename) it returns or the
\* exception it re-raises, and the files it writes (the image and its
\* metadata sidecar)
save_base64_image(now, base64_data, prompt, prefix) ==
    LET image_data == b64decode(strip_data_url(base64_data))
        timestamp == strftime(now)
        filename == <<prefix, "_", timestamp, ".png">>
        filepath == <<"data/images", "/">> \o filename
    IN IF image_data.kind = "raise"
       THEN [result |-> image_data, written |-> {}]
       ELSE [ result |-> Return(<<filepath, filename>>),
              written |-> {filepath, with_suffix(filepath, ".json")} ]

\* ImageUtils.save_3d_model: the (filepath, filename) it returns and the file
\* it writes
save_3d_model(now, model_data, prompt, image_path, prefix) ==
    LET timestamp == strftime(now)
        filename == <<prefix, "_", timestamp, ".json">>
        filepath == <<"data/models", "/">> \o filename
    IN [ result |-> Return(<<filepath, filename>>), written |-> {filepath} ]

\* the prefixes the callers pass: process passes "text2img" and "model", the
\* defaults are "image" and "model"
ImagePrefixes == {"text2img", "image"}
ModelPrefixes == {"model"}

InitSave ==
    /\ threads = [r \in Requests |->
                    [pc |-> "image_saving", image_path |-> None,
                     model_path |-> None, error |-> None]]
    /\ clock = 0
    /\ files = {}
    /\ ProcIdle
    /\ ExecIdle

Written(r, now, written) ==
    files' = files \cup {[path |-> f, by |-> r, at |-> now] : f \in written}

\* request r calls save_base64_image
SaveBase64Image(r) ==
    /\ threads[r].pc = "image_saving"
    /\ \E micro \in Micros, data \in Payloads, prefix \in ImagePrefixes :
         LET saved == save_base64_image(Now(micro), data, <<"a">>, prefix) IN
         /\ Written(r, Now(micro), saved.written)
         /\ threads' = [threads EXCEPT ![r] =
               IF saved.result.kind = "raise"
               THEN [@ EXCEPT !.pc = "done", !.error = saved.result.exc]
               ELSE [@ EXCEPT !.pc = "model_saving",
                              !.image_path = Some(TheValue(saved.result.value)[1])]]
    /\ UNCHANGED <<clock, procVars, execVars>>

\* request r calls save_3d_model
Save3dModel(r) ==
    /\ threads[r].pc = "model_saving"
    /\ \E micro \in Micros, prefix \in ModelPrefixes :
         LET saved == save_3d_model(Now(micro), PyDict({<<"format", "glb">>}),
                                    <<"a">>, TheValue(threads[r].image_path),
                                    prefix) IN
         /\ Written(r, Now(micro), saved.written)
         /\ threads' = [threads EXCEPT ![r] =
               [@ EXCEPT !.pc = "done",
                         !.model_path = Some(TheValue(saved.result.value)[1])]]
    /\ UNCHANGED <<clock, procVars, execVars>>

\* a second passes
Second ==
    /\ clock < MaxClock
    /\ clock' = clock + 1
    /\ UNCHANGED <<threads, files, procVars, execVars>>

NextSave == Second \/ \E r \in Requests : SaveBase64Image(r) \/ Save3dModel(r)

SaveSpec == InitSave /\ [][NextSave]_vars

\* C19: concurrent saves of different requests never write to the same
\* file: whatever two requests write, and whenever (also within the same
\* clock second), their files (artifacts and metadata sidecars) have
\* distinct paths.
C19_DistinctFiles ==
    \A f \in files : \A g \in files : f.by # g.by => f.path # g.path


\* ------------------------------------------------------------------------
\* ExecSpec: main.execute, called for one request after another
\* ------------------------------------------------------------------------
MaxExecutes == 2

\* d[key] = value
SetItem(d, key, value) ==
    PyDict({kv \in d.dict : kv[1] # key} \cup {<<key, value>>})

\* model.context.user_id when the model has one, else 'super-user' (lines 61-65)
ContextUsers == {None, Some("u1")}
user_id_of(ctx_user) ==
    IF ctx_user = None THEN "super-user" ELSE TheValue(ctx_user)

\* request.prompt
ExecPrompts == {<<>>, <<"a">>}

\* prompt_enhancer.process(user_prompt, user_context)
EnhancerError == Exc("Exception", <<"enhancer failed">>)
EnhancerOutcomes == {Return(<<"a">>), Return(<<"a", "b">>), Raise(EnhancerError)}

\* Stub(app_ids)
StubInitError == Exc("Exception", <<"connection failed">>)
StubInitOutcomes == {Return("stub"), Raise(StubInitError)}

\* text_to_image_service.generate_image(enhanced_prompt, user_id): the
\* service's response, or the mock response of _generate_mock_response
GenerateOutcomes ==
    { Return(PyDict({<<"result", "ref-1">>})),
      Return(PyDict({<<"status", "ok">>})),
      Return(PyDict({<<"count", "">>})),
      Return(PyDict({<<"result", "mock_image_1">>, <<"_mock", "True">>,
                     <<"error", "Generated mock response due to service unavailability">>})) }

\* int(time.time()) when save_image_reference names the file
Times == {1700000000, 1700000001}

\* save_image_reference: the reference is image_data['result'], else the
\* first string value; without one it raises
image_reference(image_data) ==
    IF HasKey(image_data, "result") THEN GetItem(image_data, "result")
    ELSE IF image_data.dict = {} THEN ""
    ELSE (CHOOSE kv \in image_data.dict : TRUE)[2]

SaveReferenceError ==
    Exc("Exception", <<"Failed to save image reference: ",
                       "No image reference found in response">>)

\* os.path.basename of the path save_image_reference returns
reference_name(timestamp) == <<"reference", "_", ToString(timestamp), ".", "txt">>

save_image_reference(image_data, timestamp) ==
    IF image_reference(image_data) = "" THEN Raise(SaveReferenceError)
    ELSE Return(<<"output/images", "/">> \o reference_name(timestamp))

\* os.path.basename(reference_path)
basename(path) == SubSeq(path, 3, Len(path))

\* int(basename.split('_')[1].split('.')[0])
timestamp_of(name) ==
    LET i == CHOOSE j \in 1..Len(name) : name[j] = "_"
        digits == name[i + 1]
    IN CHOOSE t \in Times : ToString(t) = digits

\* the entries execute appends to the user's memory
SuccessEntry(f, image_result, reference_path) ==
    [ prompt |-> f.user_prompt, enhanced_prompt |-> f.enhanced_prompt,
      image_reference |-> Some(IF HasKey(image_result, "result")
                               THEN GetItem(image_result, "result") ELSE ""),
      reference_path |-> Some(reference_path),
      timestamp |-> Some(timestamp_of(basename(reference_path))),
      error |-> None ]
ErrorEntry(f, e) ==
    [ prompt |-> f.user_prompt, enhanced_prompt |-> f.enhanced_prompt,
      image_reference |-> None, reference_path |-> None, timestamp |-> None,
      error |-> Some(StrExc(e)) ]

\* (variant: a limit that keeps the first 10 interactions)
trim_keeps_oldest(user_context) ==
    IF Len(user_context) > 10 THEN SubSeq(user_context, 1, 10) ELSE user_context

\* `if len(user_context) > 10: user_context = user_context[-10:]`
MEMORY_LIMIT == 10
trim(user_context) ==
    IF Len(user_context) > MEMORY_LIMIT
    THEN SubSeq(user_context, Len(user_context) - MEMORY_LIMIT + 1, Len(user_context))
    ELSE user_context

\* the frame of execute between two calls
NoExec ==
    [ pc |-> "idle", executes |-> 0, user_id |-> "", user_prompt |-> <<>>,
      enhanced_prompt |-> <<>>, response_message |-> <<>>,
      image_result |-> None ]

InitExec ==
    /\ memory = PyDict({})
    /\ exec = NoExec
    /\ response = None
    /\ exec_calls = <<>>
    /\ ProcIdle
    /\ ConcIdle


ExecCall(name, args) == [name |-> name, args |-> args, execute |-> exec.executes]

\* execute returns: model.response.message is set (or left alone)
Respond(f, message) ==
    /\ response' = message
    /\ exec' = [f EXCEPT !.pc = "idle"]

\* the outer `except Exception as e` of execute (lines 152-154)
ExecuteFails(f, e) ==
    Respond(f, Some(<<"An error occurred during processing: ">> \o StrExc(e)))

\* lines 57-88: the request arrives; without a prompt execute answers at once,
\* else it calls prompt_enhancer.process(user_prompt, user_context)
ExecuteBegin ==
    /\ exec.pc = "idle"
    /\ exec.executes < MaxExecutes
    /\ \E ctx_user \in ContextUsers, prompt \in ExecPrompts :
         LET user_id == user_id_of(ctx_user)
             f == [NoExec EXCEPT !.executes = exec.executes + 1,
                                 !.user_id = user_id,
                                 !.user_prompt = prompt]
             memory1 == IF HasKey(memory, user_id) THEN memory
                        ELSE SetItem(memory, user_id, <<>>)
         IN /\ memory' = memory1
            /\ IF prompt = <<>>
               THEN /\ Respond(f, Some(<<"Please provide a prompt to generate a 3D model.">>))
                    /\ UNCHANGED exec_calls
               ELSE /\ exec' = [f EXCEPT !.pc = "enhancing"]
                    /\ response' = None
                    /\ exec_calls' = Append(exec_calls,
                          [name |-> "prompt_enhancer.process",
                           args |-> <<prompt, GetItem(memory1, user_id)>>,
                           execute |-> f.executes])
    /\ UNCHANGED <<procVars, concVars>>

\* lines 88-109: the enhancer returned or raised; execute builds the Stub and
\* the TextToImageService and calls generate_image(enhanced_prompt, user_id)
ExecuteEnhanced ==
    /\ exec.pc = "enhancing"
    /\ \E out \in EnhancerOutcomes, stub \in StubInitOutcomes :
         IF out.kind = "raise"
         THEN /\ ExecuteFails(exec, TheValue(out.exc))
              /\ UNCHANGED exec_calls
         ELSE LET enhanced_prompt == TheValue(out.value)
                  f == [exec EXCEPT
                          !.enhanced_prompt = enhanced_prompt,
                          !.response_message =
                              <<"Enhanced prompt: ">> \o enhanced_prompt \o <<"\n\n">>]
              IN IF stub.kind = "raise"
                 THEN /\ ExecuteFails(f, TheValue(stub.exc))
                      /\ exec_calls' = Append(exec_calls, ExecCall("Stub", <<>>))
                 ELSE /\ exec' = [f EXCEPT !.pc = "generating"]
                      /\ UNCHANGED response
                      /\ exec_calls' = exec_calls \o
                            << ExecCall("Stub", <<>>),
                               ExecCall("generate_image",
                                        <<enhanced_prompt, exec.user_id>>) >>
    /\ UNCHANGED <<memory, procVars, concVars>>

\* lines 109-114: generate_image returned; execute calls save_image_reference
ExecuteGenerated ==
    /\ exec.pc = "generating"
    /\ \E out \in GenerateOutcomes :
         /\ exec' = [exec EXCEPT !.pc = "saving", !.image_result = out.value]
         /\ exec_calls' = Append(exec_calls,
                                 ExecCall("save_image_reference", <<out.value>>))
    /\ UNCHANGED <<memory, response, procVars, concVars>>

\* lines 114-150: save_image_reference returned or raised; execute finishes the
\* message, records the interaction in the user's memory and trims it
ExecuteSaved ==
    /\ exec.pc = "saving"
    /\ \E now \in Times :
         LET image_result == TheValue(exec.image_result)
             saved == save_image_reference(image_result, now)
             user_context == GetItem(memory, exec.user_id)
             entry == IF saved.kind = "raise"
                      THEN ErrorEntry(exec, TheValue(saved.exc))
                      ELSE SuccessEntry(exec, image_result, TheValue(saved.value))
             said == IF saved.kind = "raise"
                     THEN <<"Failed to generate image: ">>
                             \o StrExc(TheValue(saved.exc)) \o <<"\n\n">>
                     ELSE <<"Successfully generated image reference! Saved to: ">>
                             \o TheValue(saved.value) \o <<"\n\n">>
             f == [exec EXCEPT !.response_message = @ \o said]
         IN /\ memory' = SetItem(memory, exec.user_id,
                                 trim(Append(user_context, entry)))
            /\ Respond(f, Some(f.response_message))
    /\ UNCHANGED <<exec_calls, procVars, concVars>>

NextExec ==
    \/ ExecuteBegin
    \/ ExecuteEnhanced
    \/ ExecuteGenerated
    \/ ExecuteSaved

ExecSpec == InitExec /\ [][NextExec]_vars

\* ------------------------------------------------------------------------
\* Properties of execute (ExecSpec)
\* ------------------------------------------------------------------------
\* `part in message`, for texts given as sequences of pieces
Contains(message, part) ==
    \E i \in 1..(Len(message) - Len(part) + 1) :
        SubSeq(message, i, i + Len(part) - 1) = part

\* the calls of PipelineService.process made by the last call of execute
ProcessCallsOfExecute ==
    {i \in 1..Len(exec_calls) : /\ exec_calls[i].execute = exec.executes
                                /\ exec_calls[i].name = "pipeline_service.process"}

\* C20: execute calls the pipeline's process exactly once, with the request
\* prompt, and renders its message from the returned Context: "Error: " and
\* the error's message, or else a message that contains the original prompt
\* and the enhanced prompt (and the image and model paths).
C20_ExecuteCallsProcess ==
    (exec.pc = "idle" /\ exec.executes > 0 /\ exec.user_prompt # <<>>) =>
        /\ Cardinality(ProcessCallsOfExecute) = 1
        /\ \A i \in ProcessCallsOfExecute : exec_calls[i].args = <<exec.user_prompt>>
        /\ response # None
        /\ \/ SubSeq(TheValue(response), 1, 1) = <<"Error: ">>
           \/ /\ Contains(TheValue(response), exec.user_prompt)
              /\ Contains(TheValue(response), exec.enhanced_prompt)


\* ------------------------------------------------------------------------
\* More properties of process (Spec)
\* ------------------------------------------------------------------------
\* the image payload the text-to-image adapter returned
ImagePayload == GetItem(ReturnedValue(returned["text_to_image"]), "image")

\* C21: on a fully successful run process invokes each collaborator exactly
\* once and with the data of the preceding stage: enhance_prompt with the
\* user prompt as its only argument, the image service with the enhanced
\* prompt, save_base64_image with (image payload, enhanced prompt,
\* "text2img"), the model service with the same image payload, and
\* save_3d_model once.
C21_CollaboratorArgs ==
    (Done /\ AllSucceedFirst) =>
        /\ \A c \in ProcessCalls : CallCount(c) = 1
        /\ ArgsOf("enhance_prompt") = {<<user_prompt>>}
        /\ ArgsOf("text_to_image") = {<<context.enhanced_prompt>>}
        /\ ArgsOf("save_base64_image")
              = {<<ImagePayload, context.enhanced_prompt, "text2img">>}
        /\ ArgsOf("image_to_3d") = {<<ImagePayload>>}


\* ------------------------------------------------------------------------
\* CtxSpec: the operations of error_handling.py on their own: one
\* ExecutionContext that is constructed, updated and summarised, and
\* functions called through safe_execute
\* ------------------------------------------------------------------------
\* f"{seconds:.2f}s" of a duration given in milliseconds (durations whose
\* third decimal is 5 are not drawn: their rounding depends on the float)
format_2f(ms) ==
    LET cs == (ms + 5) \div 10 IN
    << ToString(cs \div 100), ".", ToString((cs % 100) \div 10),
       ToString(cs % 10), "s" >>

\* ExecutionContext.get_execution_time, at time.time() = now
get_execution_time(ctx, now) == now - ctx.start_time

\* (variant: a summary that copies every attribute of the context)
get_status_summary_all_fields(ctx, now) ==
    [ correlation_id |-> ctx.correlation_id,
      user_prompt |-> ctx.user_prompt,
      enhanced_prompt |-> ctx.enhanced_prompt,
      stage |-> ctx.stage,
      execution_time |-> format_2f(get_execution_time(ctx, now)),
      error |-> IF ctx.error # None THEN Some(StrExc(TheValue(ctx.error)))
                ELSE None,
      image_path |-> ctx.image_path,
      image_filename |-> ctx.image_filename,
      model_path |-> ctx.model_path,
      model_filename |-> ctx.model_filename ]

\* ExecutionContext.get_status_summary, at time.time() = now
get_status_summary(ctx, now) ==
    [ correlation_id |-> ctx.correlation_id,
      user_prompt |-> ctx.user_prompt,
      enhanced_prompt |-> ctx.enhanced_prompt,
      stage |-> ctx.stage,
      execution_time |-> format_2f(get_execution_time(ctx, now)),
      error |-> IF ctx.error # None THEN Some(StrExc(TheValue(ctx.error)))
                ELSE None,
      image_path |-> ctx.image_path,
      model_path |-> ctx.model_path ]

\* (variant: a wrapper that returns None whatever default_return is)
safe_execute_no_default(default_return, out) ==
    IF out.kind = "return" THEN out
    ELSE IF Catches("Exception", TheValue(out.exc)) THEN Return("None")
    ELSE out

\* safe_execute(default_return)(func)(...): wrapper, given what func did
safe_execute(default_return, out) ==
    IF out.kind = "return" THEN out
    ELSE IF Catches("Exception", TheValue(out.exc)) THEN Return(default_return)
    ELSE out

\* the arguments of ExecutionContext(...), and what uuid4 and time.time()
\* give
CorrelationIds == {None, Some(""), Some("cid-1")}
Uuids == {"uuid-1", "uuid-2"}
StartTimes == {0, 1000}
\* time.time() - start_time at a later call, in milliseconds
Elapsed == {0, 4, 16, 1237, 61999}
\* stage names given to update_stage: of the pipeline and others
StageNames == {"prompt_enhancement", "complete", "processing_prompt", ""}
ContextErrors == {Exc("ValueError", <<"Test error">>), StubError}
\* attributes that process assigns, and a value for each
AssignedFields == {"enhanced_prompt", "image_path", "image_filename"}
\* default_return of safe_execute: the default None, and a given value
Defaults == {"None", "fallback"}

CtxIdle ==
    /\ llm_service = "LLMService"
    /\ locals = NoLocals
    /\ stage_log = <<>>
    /\ outcome = "running"
    /\ thrown = None
    /\ llm = LLMFrame(LLM_MAX_RETRIES, LLM_RETRY_DELAY)
    /\ rf = NoRetryFrame
    /\ llm_log = <<>>
    /\ attempts = <<>>
    /\ sleeps = <<>>

ctxUnchanged ==
    << llm_service, locals, stage_log, outcome, thrown, llm, rf, llm_log,
       attempts, sleeps >>

\* calls holds the last operation; returned["func"] what it returned
Construct(p, cid, u, t) ==
    [ name |-> "ExecutionContext", args |-> <<p, cid, u, t>>,
      stage |-> "initialized" ]

InitCtx ==
    /\ pc = "ctx"
    /\ \E p \in Prompts, cid \in CorrelationIds, u \in Uuids, t \in StartTimes :
         /\ user_prompt = p
         /\ context = ExecutionContext(p, cid, u, t)
         /\ calls = <<Construct(p, cid, u, t)>>
    /\ returned = NothingReturned
    /\ CtxIdle
    /\ ConcIdle
    /\ ExecIdle

\* ExecutionContext(user_prompt, correlation_id)
CtxNew ==
    /\ pc = "ctx"
    /\ \E p \in Prompts, cid \in CorrelationIds, u \in Uuids, t \in StartTimes :
         /\ user_prompt' = p
         /\ context' = ExecutionContext(p, cid, u, t)
         /\ calls' = <<Construct(p, cid, u, t)>>
    /\ returned' = NothingReturned
    /\ UNCHANGED <<pc, ctxUnchanged, concVars, execVars>>

\* context.update_stage(s)
CtxUpdateStage ==
    /\ pc = "ctx"
    /\ \E s \in StageNames :
         /\ context' = update_stage(context, s)
         /\ calls' = <<Call("update_stage", <<s>>)>>
    /\ returned' = NothingReturned
    /\ UNCHANGED <<user_prompt, pc, ctxUnchanged, concVars, execVars>>

\* context.set_error(e)
CtxSetError ==
    /\ pc = "ctx"
    /\ \E e \in ContextErrors :
         /\ context' = set_error(context, e)
         /\ calls' = <<Call("set_error", <<e>>)>>
    /\ returned' = NothingReturned
    /\ UNCHANGED <<user_prompt, pc, ctxUnchanged, concVars, execVars>>

\* context.<field> = value, as process assigns its results
CtxAssign ==
    /\ pc = "ctx"
    /\ \E f \in AssignedFields :
         /\ context' = [context EXCEPT ![f] = Some(<<f>>)]
         /\ calls' = <<Call("assign", <<f>>)>>
    /\ returned' = NothingReturned
    /\ UNCHANGED <<user_prompt, pc, ctxUnchanged, concVars, execVars>>

\* context.get_status_summary()
CtxSummary ==
    /\ pc = "ctx"
    /\ \E e \in Elapsed :
         LET now == context.start_time + e IN
         /\ calls' = <<Call("get_status_summary", <<now>>)>>
         /\ returned' = [NothingReturned EXCEPT
                           !["func"] = Some(Return(get_status_summary(context, now)))]
    /\ UNCHANGED <<user_prompt, pc, context, ctxUnchanged, concVars, execVars>>

\* a function decorated with safe_execute(default_return=d) is called
CtxSafeExecute ==
    /\ pc = "ctx"
    /\ \E d \in Defaults, out \in FuncOutcomes :
         /\ calls' = <<Call("safe_execute", <<d, out>>)>>
         /\ returned' = [NothingReturned EXCEPT
                           !["func"] = Some(safe_execute(d, out))]
    /\ UNCHANGED <<user_prompt, pc, context, ctxUnchanged, concVars, execVars>>

NextCtx ==
    \/ CtxNew
    \/ CtxUpdateStage
    \/ CtxSetError
    \/ CtxAssign
    \/ CtxSummary
    \/ CtxSafeExecute

CtxSpec == InitCtx /\ [][NextCtx]_vars


\* ------------------------------------------------------------------------
\* Properties of ExecutionContext and safe_execute (CtxSpec)
\* ------------------------------------------------------------------------
\* what the last operation returned
LastReturned == TheValue(returned["func"])

\* C22: a function wrapped by safe_execute(default_return = d) never raises
\* an Exception to its caller: the call returns the function's own result
\* when the function returns, and d whenever the function raises.
C22_SafeExecute ==
    LastCall.name = "safe_execute" =>
        LET d == LastCall.args[1]
            out == LastCall.args[2]
        IN /\ LastReturned.kind = "return"
           /\ out.kind = "return" => LastReturned = out
           /\ out.kind = "raise" => LastReturned = Return(d)

\* the wrapped function raised and the given default came back
C22_Witness ==
    /\ LastCall.name = "safe_execute"
    /\ LastCall.args[1] = "fallback"
    /\ LastCall.args[2].kind = "raise"
    /\ LastReturned = Return("fallback")

ContextFields ==
    { "correlation_id", "user_prompt", "enhanced_prompt", "image_path",
      "image_filename", "model_path", "model_filename", "start_time", "stage",
      "error" }

\* C23: update_stage(s) sets stage to s, for any s (also one that is not a
\* stage of the pipeline), and changes no other field; set_error(e) sets
\* error to e and leaves the stage and every other field as they were.
C23_UpdateStageSetError ==
    [][ /\ calls'[1].name = "update_stage" =>
            /\ context'.stage = calls'[1].args[1]
            /\ \A f \in ContextFields \ {"stage"} : context'[f] = context[f]
        /\ calls'[1].name = "set_error" =>
            /\ context'.error = Some(calls'[1].args[1])
            /\ \A f \in ContextFields \ {"error"} : context'[f] = context[f]
      ]_vars

\* set_error was applied to a context whose stage is not one of the
\* pipeline's (so update_stage had accepted it) and that holds a result
C23_Witness ==
    /\ LastCall.name = "set_error"
    /\ context.error = Some(LastCall.args[1])
    /\ context.stage = "processing_prompt"
    /\ context.enhanced_prompt # None


\* the attributes of the context that hold the request and its results
SnapshotFields ==
    { "correlation_id", "user_prompt", "enhanced_prompt", "image_path",
      "image_filename", "model_path", "model_filename", "stage" }
\* the keys of the summary that are copies of attributes
SummaryFields ==
    { "correlation_id", "user_prompt", "enhanced_prompt", "image_path",
      "model_path", "stage" }

\* the summary's execution_time and error, for the context it was made of
SummaryTimeAndError(s) ==
    /\ s.execution_time = format_2f(LastCall.args[1] - context.start_time)
    /\ context.error # None => s.error = Some(StrExc(TheValue(context.error)))
    /\ context.error = None => s.error = None

\* C24 (as stated): get_status_summary returns a snapshot that contains
\* every field of the context (correlation_id, user_prompt, enhanced_prompt,
\* image_path, image_filename, model_path, model_filename, stage), the
\* formatted elapsed time, and the error as its message string, or None.
C24_SummaryEveryField ==
    LastCall.name = "get_status_summary" =>
        LET s == TheValue(LastReturned.value) IN
        /\ \A f \in SnapshotFields : f \in DOMAIN s /\ s[f] = context[f]
        /\ SummaryTimeAndError(s)

\* C24 (amended): get_status_summary returns a snapshot that contains
\* correlation_id, user_prompt, enhanced_prompt, image_path, model_path and
\* stage of the context, but neither image_filename nor model_filename, the
\* formatted elapsed time, and the error as its message string, or None.
C24_SummaryFields ==
    LastCall.name = "get_status_summary" =>
        LET s == TheValue(LastReturned.value) IN
        /\ \A f \in SummaryFields : f \in DOMAIN s /\ s[f] = context[f]
        /\ \A f \in SnapshotFields \ SummaryFields : f \notin DOMAIN s
        /\ SummaryTimeAndError(s)

\* a summary was made, 1.237 s after its start, of a context that holds an
\* error, an image path and an image file name
C24_Witness ==
    /\ LastCall.name = "get_status_summary"
    /\ context.error # None
    /\ context.image_path # None
    /\ context.image_filename # None
    /\ TheValue(LastReturned.value).execution_time = <<"1", ".", "2", "4", "s">>

\* C25 (as stated): a new context has stage "initialized", no error, no
\* result, the given user_prompt, and a correlation id that is the supplied
\* one when one is given and a generated one only when none is given.
C25_NewContext ==
    LastCall.name = "ExecutionContext" =>
        LET given == LastCall.args[2] IN
        /\ context.stage = "initialized"
        /\ context.error = None
        /\ \A f \in SnapshotFields \ {"correlation_id", "user_prompt", "stage"} :
             context[f] = None
        /\ context.user_prompt = LastCall.args[1]
        /\ given # None => context.correlation_id = TheValue(given)
        /\ given = None => context.correlation_id = LastCall.args[3]

\* C25 (amended): a new context has stage "initialized", no error, no
\* result, the given user_prompt, and a correlation id that is the supplied
\* one when a non-empty one is given and a generated one when none, or an
\* empty one, is given.
C25_NewContextNonEmptyId ==
    LastCall.name = "ExecutionContext" =>
        LET given == LastCall.args[2]
            supplied == given # None /\ TheValue(given) # ""
        IN
        /\ context.stage = "initialized"
        /\ context.error = None
        /\ \A f \in SnapshotFields \ {"correlation_id", "user_prompt", "stage"} :
             context[f] = None
        /\ context.user_prompt = LastCall.args[1]
        /\ supplied => context.correlation_id = TheValue(given)
        /\ ~supplied => context.correlation_id = LastCall.args[3]

\* a context was constructed with a supplied, non-empty id
C25_Witness ==
    /\ LastCall.name = "ExecutionContext"
    /\ LastCall.args[2] = Some("cid-1")
    /\ context.correlation_id = "cid-1"
    /\ context.user_prompt = <<"a">>
    /\ context.start_time = 1000


\* ------------------------------------------------------------------------
\* More properties of process: order and termination
\* ------------------------------------------------------------------------
\* the collaborator of the stage before c's
PrevCollaborator(c) ==
    CASE c = "text_to_image" -> "enhance_prompt"
      [] c = "save_base64_image" -> "text_to_image"
      [] c = "image_to_3d" -> "save_base64_image"
      [] c = "save_3d_model" -> "image_to_3d"

\* C26: within one process call the stages are strictly sequential: at every
\* invocation of a collaborator (every retry attempt included) the
\* context's stage is already that stage's name, no collaborator of an
\* earlier stage is invoked after one of a later stage, and a stage's
\* collaborator is invoked only after the previous stage's collaborator was
\* invoked and has returned successfully.
C26_StagesSequential ==
    \A i \in 1..Len(calls) :
        /\ calls[i].stage = StageOf(calls[i].name)
        /\ \A j \in 1..(i - 1) :
             StageIndex(calls[j].stage) <= StageIndex(calls[i].stage)
        /\ calls[i].name \in ProcessCalls \ {"enhance_prompt"} =>
             /\ IsReturn(returned[PrevCollaborator(calls[i].name)])
             /\ \E j \in 1..(i - 1) :
                  calls[j].name = PrevCollaborator(calls[i].name)

\* the model is saved after the language model and both generation
\* services were retried
C26_Witness ==
    /\ CallCount("save_3d_model") = 1
    /\ CallCount("requests.post") = 2
    /\ CallCount("text_to_image") = 3
    /\ CallCount("image_to_3d") = 2


\* process is sequential code: provided each call of a collaborator returns
\* or raises, and each sleep ends, its next step is eventually taken
FairSpec == Spec /\ WF_vars(Next)

\* the bounds on the invocations of one process call
CallBounds ==
    /\ CallCount("enhance_prompt") <= 1
    /\ CallCount("requests.post") <= LLM_MAX_RETRIES
    /\ CallCount("text_to_image") <= PIPELINE_MAX_ATTEMPTS
    /\ CallCount("image_to_3d") <= PIPELINE_MAX_ATTEMPTS
    /\ CallCount("save_base64_image") <= 1
    /\ CallCount("save_3d_model") <= 1

\* C27: provided each collaborator call returns or raises, process always
\* terminates: the language model is invoked at most 3 times, each
\* generation service at most 3 times, each save step at most once, and
\* process reaches its end, where it has returned the context.
C27_Terminates ==
    /\ []CallBounds
    /\ <>(Done /\ outcome = "returned")
    /\ [](Done => ~ENABLED Next)

\* process ended after the largest number of invocations
C27_Witness ==
    /\ Done
    /\ CallCount("requests.post") = 3
    /\ CallCount("text_to_image") = 3
    /\ CallCount("image_to_3d") = 3
    /\ CallCount("save_base64_image") = 1
    /\ CallCount("save_3d_model") = 1


\* ------------------------------------------------------------------------
\* LLMSpec: one call of LLMService(max_retries, retry_delay).enhance_prompt
\* ------------------------------------------------------------------------
InitLLM ==
    /\ user_prompt \in Prompts
    /\ llm_service = "LLMService"
    /\ pc = "llm"
    /\ context = ExecutionContext(user_prompt, None, "uuid-1", 0)
    /\ locals = NoLocals
    /\ stage_log = <<>>
    /\ outcome = "running"
    /\ thrown = None
    /\ \E n \in 0..MaxAttemptsBound, d \in DelayValues : llm = LLMFrame(n, d)
    /\ rf = NoRetryFrame
    /\ calls = <<>>
    /\ llm_log = <<>>
    /\ attempts = <<>>
    /\ sleeps = <<>>
    /\ returned = NothingReturned
    /\ ConcIdle
    /\ ExecIdle

\* one iteration of the loop of _call_llm_with_retry; when the loop is left,
\* enhance_prompt returns
LLMRequest ==
    /\ pc = "llm"
    /\ llm.attempt < llm.max_retries
    /\ \E out \in LLMOutcomes :
         LET it == llm_iteration(llm, out) IN
         /\ calls' = Append(calls, Call("requests.post", <<user_prompt>>))
         /\ sleeps' = sleeps \o it.slept
         /\ llm' = it.frame
         /\ llm_log' = Append(llm_log, out)
         /\ IF it.result = None
            THEN UNCHANGED <<pc, returned>>
            ELSE /\ Returned("enhance_prompt",
                             enhance_prompt(user_prompt, TheValue(it.result)))
                 /\ pc' = "llm_done"
    /\ UNCHANGED <<user_prompt, llm_service, context, locals, stage_log, outcome,
                   thrown, rf, attempts>>
    /\ UNCHANGED <<concVars, execVars>>

\* the loop is over: _call_llm_with_retry raises, enhance_prompt falls back
LLMGiveUp ==
    /\ pc = "llm"
    /\ llm.attempt >= llm.max_retries
    /\ Returned("enhance_prompt", enhance_prompt(user_prompt, llm_exhausted(llm)))
    /\ pc' = "llm_done"
    /\ UNCHANGED <<user_prompt, llm_service, context, locals, stage_log, outcome,
                   thrown, llm, rf, calls, llm_log, attempts, sleeps>>
    /\ UNCHANGED <<concVars, execVars>>

NextLLM == LLMRequest \/ LLMGiveUp

LLMSpec == InitLLM /\ [][NextLLM]_vars

LLMDone == pc = "llm_done"
IsRequestError(out) ==
    out.kind = "raise" /\ Catches("RequestException", TheValue(out.exc))
\* the response text of a successful request
ResponseText(out) == GetItem(TheValue(out.value), "response")

\* C28: with max_retries = n, when the request fails with a request error on
\* the first k attempts (k < n) and succeeds on attempt k + 1, the
\* collaborator is invoked exactly k + 1 times and enhance_prompt returns
\* the stripped response, not the original prompt.
C28_RetryThenResponse ==
    ( /\ LLMDone
      /\ llm_log # <<>>
      /\ \A i \in 1..(Len(llm_log) - 1) : IsRequestError(llm_log[i])
      /\ llm_log[Len(llm_log)].kind = "return"
      /\ HasKey(TheValue(llm_log[Len(llm_log)].value), "response") )
    =>  /\ Len(llm_log) <= llm.max_retries
        /\ CallCount("requests.post") = Len(llm_log)
        /\ returned["enhance_prompt"]
             = Some(Return(strip(ResponseText(llm_log[Len(llm_log)]))))

\* with max_retries = 4, three request errors and then a response that
\* differs from the prompt and has a blank to strip
C28_Witness ==
    /\ LLMDone
    /\ llm.max_retries = 4
    /\ user_prompt = <<" ">>
    /\ llm_log = << Raise(RequestError), Raise(RequestError), Raise(RequestError),
                    Return(PyDict({<<"response", <<"a", " ">>>>})) >>
    /\ returned["enhance_prompt"] = Some(Return(<<"a">>))


\* a failure that is not a request error
IsOtherError(out) == out.kind = "raise" /\ ~IsRequestError(out)
RequestErrorCount ==
    Cardinality({i \in 1..Len(llm_log) : IsRequestError(llm_log[i])})

\* C29: enhance_prompt never raises, and only request errors consume the
\* retry budget: when the collaborator raises any other exception it is not
\* invoked again, no suspension follows, and enhance_prompt returns the
\* original prompt at once.
C29_OtherErrorFallsBack ==
    /\ LLMDone => IsReturn(returned["enhance_prompt"])
    /\ llm.attempt = RequestErrorCount
    /\ Len(sleeps) = RequestErrorCount
    /\ \A i \in 1..Len(llm_log) :
         IsOtherError(llm_log[i]) =>
             /\ i = Len(llm_log)
             /\ LLMDone
             /\ ~ENABLED NextLLM
             /\ returned["enhance_prompt"] = Some(Return(user_prompt))

\* a malformed response came after one request error, with budget left
C29_Witness ==
    /\ LLMDone
    /\ llm.max_retries = 3
    /\ user_prompt = <<"a">>
    /\ llm_log = << Raise(RequestError), Raise(ResponseError) >>
    /\ sleeps = << llm.retry_delay >>
    /\ returned["enhance_prompt"] = Some(Return(<<"a">>))


\* ------------------------------------------------------------------------
\* More properties of process: an empty response of the language model
\* ------------------------------------------------------------------------
\* the last request succeeded with an empty response text, or with none
EmptyResponse ==
    /\ llm_service = "LLMService"
    /\ llm_log # <<>>
    /\ llm_log[Len(llm_log)] \in
         { Return(PyDict({})), Return(PyDict({<<"response", <<>>>>})) }

\* C30: when the language model's request succeeds with an empty or missing
\* response text, enhance_prompt returns the empty string (there is no
\* fallback to the prompt), process sets enhanced_prompt to the empty string
\* and goes on to invoke the text-to-image adapter, with the empty prompt.
C30_EmptyResponseKept ==
    EmptyResponse =>
        /\ returned["enhance_prompt"] = Some(Return(<<>>))
        /\ context.enhanced_prompt = Some(<<>>)
        /\ context.error = None => pc # "prompt_enhancement"
        /\ CallCount("text_to_image") = 0 => pc = "text_to_image"
        /\ ArgsOf("text_to_image") \subseteq {<<Some(<<>>)>>}
        /\ Done => CallCount("text_to_image") >= 1

\* the prompt was "a", the response had no text, and the adapter was called
C30_Witness ==
    /\ EmptyResponse
    /\ user_prompt = <<"a">>
    /\ llm_log = << Raise(RequestError), Return(PyDict({})) >>
    /\ CallCount("text_to_image") = 1
    /\ ArgsOf("text_to_image") = {<<Some(<<>>)>>}


\* ------------------------------------------------------------------------
\* More properties of process: the returned context
\* ------------------------------------------------------------------------
IsSet(f) == context[f] # None
StageLaterThan(s) == StageIndex(context.stage) > StageIndex(s)

\* C31: in every context returned by process the result fields agree with
\* the final stage: model_path and model_filename are set exactly when the
\* stage is "complete"; image_path and image_filename exactly when the stage
\* is image_to_3d, model_saving or complete; enhanced_prompt exactly when
\* the stage is later than prompt_enhancement; and model_path set implies
\* image_path set implies enhanced_prompt set.
C31_FieldsMatchStage ==
    (Done /\ outcome = "returned") =>
        /\ IsSet("model_path") <=> context.stage = "complete"
        /\ IsSet("model_filename") <=> context.stage = "complete"
        /\ IsSet("image_path")
             <=> context.stage \in {"image_to_3d", "model_saving", "complete"}
        /\ IsSet("image_filename")
             <=> context.stage \in {"image_to_3d", "model_saving", "complete"}
        /\ IsSet("enhanced_prompt") <=> StageLaterThan("prompt_enhancement")
        /\ IsSet("model_path") => IsSet("image_path")
        /\ IsSet("image_path") => IsSet("enhanced_prompt")

\* process returned from the stage model_saving: an image but no model
C31_Witness ==
    /\ Done
    /\ outcome = "returned"
    /\ context.stage = "model_saving"
    /\ IsSet("image_path")
    /\ ~IsSet("model_path")
    /\ IsRaise(returned["save_3d_model"])


\* ------------------------------------------------------------------------
\* More properties of the retry wrapper (RetrySpec)
\* ------------------------------------------------------------------------
\* the failures that the wrapped function produces
FuncFailures == {TheValue(o.exc) : o \in {x \in FuncOutcomes : x.kind = "raise"}}

\* C32: with max_attempts = 0 or negative the wrapped function is never
\* invoked and the wrapper returns no result: it raises to its caller, and
\* what it raises is not a failure of the function.
C32_NoAttempts ==
    rf.max_attempts <= 0 =>
        /\ CallCount("func") = 0
        /\ attempts = <<>>
        /\ sleeps = <<>>
        /\ ~RetryDone => ENABLED NextRetry
        /\ RetryDone =>
             /\ IsRaise(returned["func"])
             /\ RaisedExc(returned["func"]) \notin FuncFailures

\* a wrapper with max_attempts = -1 has raised the TypeError of `raise None`
C32_Witness ==
    /\ RetryDone
    /\ rf.max_attempts = -1
    /\ IsRaise(returned["func"])
    /\ RaisedExc(returned["func"]).cls = "TypeError"


\* ------------------------------------------------------------------------
\* RetryCallsSpec: a retry-wrapped function that is called again and again
\* (stage_log holds what the earlier calls did: the number of their attempts
\* and waits, and whether they returned or raised)
\* ------------------------------------------------------------------------
\* Largest number of calls of the wrapped function in RetryCallsSpec.
MaxInvocations == 2

\* (variant: a wrapper whose current_delay outlives the call)
retry_enter_keeps_delay(f) == [f EXCEPT !.attempt = 0, !.last_exception = None]

\* wrapper is entered: last_exception = None, current_delay = delay, and the
\* loop starts at attempt 0; max_attempts, delay and backoff are the
\* decorator's arguments
retry_enter(f) == RetryFrame(f.max_attempts, f.delay, f.backoff)

\* the call of wrapper has ended and the wrapped function is called again
RetryCallAgain ==
    /\ pc = "retry_done"
    /\ Len(stage_log) < MaxInvocations - 1
    /\ stage_log' = Append(stage_log, [attempts |-> Len(attempts),
                                       slept |-> Len(sleeps),
                                       result |-> TheValue(returned["func"]).kind])
    /\ rf' = retry_enter(rf)
    /\ pc' = "retry"
    /\ calls' = <<>>
    /\ attempts' = <<>>
    /\ sleeps' = <<>>
    /\ returned' = NothingReturned
    /\ UNCHANGED <<user_prompt, llm_service, context, locals, outcome, thrown,
                   llm, llm_log>>
    /\ UNCHANGED <<concVars, execVars>>

NextRetryCalls == RetryAttempt \/ RetryExhausted \/ RetryCallAgain

RetryCallsSpec == InitRetry /\ [][NextRetryCalls]_vars

\* C33: the wrapper keeps no state between calls: whatever the earlier calls
\* did, a call starts with the full attempt budget and the base delay, so
\* its k-th wait is again delay * backoff^(k-1), every one of its
\* max_attempts attempts can be made, and it gives up only after
\* max_attempts failures.
C33_NoStateBetweenCalls ==
    stage_log # <<>> =>
        /\ (pc = "retry" /\ attempts = <<>>) =>
             /\ rf.attempt = 0
             /\ rf.current_delay = rf.delay
             /\ rf.last_exception = None
        /\ \A k \in 1..Len(sleeps) : sleeps[k] = rf.delay * Pow(rf.backoff, k - 1)
        /\ (pc = "retry" /\ Len(attempts) < rf.max_attempts) => ENABLED RetryAttempt
        /\ (RetryDone /\ AllAttemptsFailed /\ rf.max_attempts >= 1) =>
             Len(attempts) = rf.max_attempts

\* a second call slept 2 and 4 and succeeded, after a first call that had
\* used up its four attempts
C33_Witness ==
    /\ Len(stage_log) = 1
    /\ stage_log[1] = [attempts |-> 4, slept |-> 3, result |-> "raise"]
    /\ rf.delay = 2
    /\ rf.backoff = 2
    /\ RetryDone
    /\ sleeps = <<2, 4>>
    /\ IsReturn(returned["func"])


\* ------------------------------------------------------------------------
\* ImgSpec: one TextToImageService, whose generate_image is called again and
\* again. exec is the instance's app_url together with the frame of the
\* call, exec_calls what the call did so far (each stub.call with what it
\* gave, and each time.sleep), response what it returned.
\* ------------------------------------------------------------------------
TEXT_TO_IMAGE_APP_ID == "c25dcd829d134ea98f5ae4dd311d13bc"
\* lines 94-96
alternate_app_id ==
    IF TEXT_TO_IMAGE_APP_ID # "c25dcd829d134ea98f5ae4dd311d13bc"
    THEN "c25dcd829d134ea98f5ae4dd311d13bc"
    ELSE "f0997a01-d6d3-a5fe-53d8-561300318557"
format_app_url(app_id) == <<app_id, ".node3.openfabric.network">>
PrimaryUrl == format_app_url(TEXT_TO_IMAGE_APP_ID)
AlternateUrl == format_app_url(alternate_app_id)

\* max_retries and retry_delay of generate_image
IMAGE_MAX_RETRIES == 3
IMAGE_RETRY_DELAY == 2

\* self.stub.call(self.app_url, request_data, user_id)
ImageResponse == PyDict({<<"result", "ref-1">>})
StubCallOutcomes ==
    {Return(ImageResponse), Return(PyDict({})), Return(PyNone), Raise(StubError)}

EmptyResponseError ==
    Exc("Exception", <<"Empty response from Text-to-Image service">>)
TimeoutError == Exc("Exception", <<"Request timed out after 30 seconds">>)

\* (variant: an attempt that takes whatever stub.call returns)
image_attempt_accepts_empty(out, timed_out) ==
    IF out.kind = "return" THEN out
    ELSE IF timed_out THEN Raise(TimeoutError)
    ELSE out

\* lines 64-79: the inner try of one attempt, given what stub.call did and
\* whether more than timeout_seconds have passed when it failed
image_attempt(out, timed_out) ==
    IF out.kind = "return" /\ ~Falsy(TheValue(out.value)) THEN out
    ELSE IF timed_out THEN Raise(TimeoutError)
    ELSE IF out.kind = "return" THEN Raise(EmptyResponseError)
    ELSE out

\* _generate_mock_response(prompt), at int(time.time()) = now
generate_mock_response(prompt, now) ==
    PyDict({ <<"result", <<"mock_image_", ToString(now)>>>>,
             <<"_mock", "True">>,
             <<"prompt", prompt>>,
             <<"error", "Generated mock response due to service unavailability">> })

\* (variant: a fallback that is tried whatever app_url is)
tries_alternate_always(app_url) == TRUE

\* line 90: the alternate service is tried when app_url is the primary one
tries_alternate(app_url) == app_url = PrimaryUrl

\* line 82
waits_after(attempt) == attempt < IMAGE_MAX_RETRIES - 1

ImgIdle == [ pc |-> "idle", app_url |-> PrimaryUrl, began_at |-> PrimaryUrl,
             attempt |-> 0, prompt |-> <<>>, error |-> None ]

\* TextToImageService(stub): app_url is the primary service's
InitImg ==
    /\ exec = ImgIdle
    /\ exec_calls = <<>>
    /\ response = None
    /\ memory = <<>>
    /\ ProcIdle
    /\ ConcIdle

StubCall(out) ==
    [name |-> "stub.call", url |-> exec.app_url, out |-> Some(out), wait |-> 0]
SleepCall(wait) ==
    [name |-> "time.sleep", url |-> <<>>, out |-> None, wait |-> wait]

\* generate_image(prompt) is called
GenerateImage ==
    /\ exec.pc = "idle"
    /\ \E prompt \in ExecPrompts :
         exec' = [exec EXCEPT !.pc = "attempting", !.began_at = exec.app_url,
                              !.attempt = 0, !.prompt = prompt, !.error = None]
    /\ exec_calls' = <<>>
    /\ response' = None
    /\ UNCHANGED <<memory, procVars, concVars>>

\* one iteration of the loop (lines 54-98), up to the return, the sleep or
\* the switch to the alternate service
ImageTry ==
    /\ exec.pc = "attempting"
    /\ exec.attempt < IMAGE_MAX_RETRIES
    /\ \E out \in StubCallOutcomes, timed_out \in BOOLEAN, now \in Times :
         LET r == image_attempt(out, timed_out) IN
         IF r.kind = "return"
         THEN /\ response' = Some(r)
              /\ exec' = [exec EXCEPT !.pc = "idle"]
              /\ exec_calls' = Append(exec_calls, StubCall(out))
         ELSE IF waits_after(exec.attempt)
         THEN /\ exec' = [exec EXCEPT !.attempt = @ + 1, !.error = r.exc]
              /\ exec_calls' = exec_calls \o
                    << StubCall(out),
                       SleepCall(IMAGE_RETRY_DELAY * Pow(2, exec.attempt)) >>
              /\ UNCHANGED response
         ELSE IF tries_alternate(exec.app_url)
         THEN /\ exec' = [exec EXCEPT !.pc = "fallback", !.error = r.exc,
                                      !.app_url = AlternateUrl]
              /\ exec_calls' = Append(exec_calls, StubCall(out))
              /\ UNCHANGED response
         ELSE /\ response' = Some(Return(generate_mock_response(exec.prompt, now)))
              /\ exec' = [exec EXCEPT !.pc = "idle", !.error = r.exc]
              /\ exec_calls' = Append(exec_calls, StubCall(out))
    /\ UNCHANGED <<memory, procVars, concVars>>

\* lines 99-109: the call of the alternate service, and the mock response
ImageFallback ==
    /\ exec.pc = "fallback"
    /\ \E out \in StubCallOutcomes, now \in Times :
         /\ response' =
              IF out.kind = "return" /\ ~Falsy(TheValue(out.value))
              THEN Some(out)
              ELSE Some(Return(generate_mock_response(exec.prompt, now)))
         /\ exec_calls' = Append(exec_calls, StubCall(out))
         /\ exec' = [exec EXCEPT !.pc = "idle"]
    /\ UNCHANGED <<memory, procVars, concVars>>

NextImg == GenerateImage \/ ImageTry \/ ImageFallback

ImgSpec == InitImg /\ [][NextImg]_vars


\* ------------------------------------------------------------------------
\* Properties of TextToImageService.generate_image (ImgSpec)
\* ------------------------------------------------------------------------
IsStubCall(c) == c.name = "stub.call"
StubCalls == SelectSeq(exec_calls, IsStubCall)
IsSleep(c) == c.name = "time.sleep"
Waits == [i \in 1..Len(SelectSeq(exec_calls, IsSleep)) |->
            SelectSeq(exec_calls, IsSleep)[i].wait]
\* the call gave a non-empty response
NonEmpty(c) ==
    LET out == TheValue(c.out) IN out.kind = "return" /\ ~Falsy(TheValue(out.value))
GenerateDone == exec.pc = "idle" /\ response # None
Generated == TheValue(TheValue(response).value)
AttemptsMade == IF Len(StubCalls) < IMAGE_MAX_RETRIES THEN Len(StubCalls)
                ELSE IMAGE_MAX_RETRIES

\* C34: generate_image never raises and always returns a non-empty map. It
\* makes at most 4 calls of the service; it waits 2 s and 4 s between its 3
\* attempts; the first attempt with a non-empty response ends it with that
\* response; on an instance at the primary service the 3 attempts go to the
\* primary service and, when none gave a response, one further call goes to
\* the alternate one, whose non-empty response is returned; when no call
\* gave a response it returns a mock response marked _mock.
C34_GenerateImageTotal ==
    /\ Len(StubCalls) <= IMAGE_MAX_RETRIES + 1
    /\ GenerateDone =>
         /\ TheValue(response).kind = "return"
         /\ ~Falsy(Generated)
         /\ Waits = SubSeq(<<2, 4>>, 1, AttemptsMade - 1)
         /\ \A i \in 1..Len(StubCalls) :
              NonEmpty(StubCalls[i]) =>
                  /\ i = Len(StubCalls)
                  /\ response = StubCalls[i].out
         /\ (\A i \in 1..Len(StubCalls) : ~NonEmpty(StubCalls[i])) =>
              /\ HasKey(Generated, "_mock")
              /\ Len(StubCalls) >= IMAGE_MAX_RETRIES
         /\ exec.began_at = PrimaryUrl =>
              /\ \A i \in 1..AttemptsMade : StubCalls[i].url = PrimaryUrl
              /\ (\A i \in 1..AttemptsMade : ~NonEmpty(StubCalls[i])) =>
                   /\ Len(StubCalls) = IMAGE_MAX_RETRIES + 1
                   /\ StubCalls[IMAGE_MAX_RETRIES + 1].url = AlternateUrl

\* the primary service failed three times, in three ways, and the alternate
\* service gave the response
C34_Witness ==
    /\ GenerateDone
    /\ exec.began_at = PrimaryUrl
    /\ Len(StubCalls) = 4
    /\ StubCalls[1].out = Some(Raise(StubError))
    /\ StubCalls[2].out = Some(Return(PyDict({})))
    /\ StubCalls[3].out = Some(Return(PyNone))
    /\ Waits = <<2, 4>>
    /\ response = Some(Return(ImageResponse))

\* C35: the switch of the service is permanent for the instance: once a call
\* has used up its attempts on the primary service app_url is the alternate
\* one and stays so; every later call sends all its attempts there, never
\* calls the primary service, and when they are used up returns the mock
\* response without a further call.
C35_SwitchIsPermanent ==
    /\ [][exec.app_url = AlternateUrl => exec'.app_url = AlternateUrl]_vars
    /\ []( /\ ( /\ exec.began_at = PrimaryUrl
                /\ Len(StubCalls) >= IMAGE_MAX_RETRIES
                /\ \A i \in 1..IMAGE_MAX_RETRIES : ~NonEmpty(StubCalls[i]) )
              => exec.app_url = AlternateUrl
           /\ exec.began_at = AlternateUrl =>
                /\ exec.app_url = AlternateUrl
                /\ Len(StubCalls) <= IMAGE_MAX_RETRIES
                /\ \A i \in 1..Len(StubCalls) : StubCalls[i].url = AlternateUrl
                /\ ( /\ Len(StubCalls) = IMAGE_MAX_RETRIES
                     /\ \A i \in 1..Len(StubCalls) : ~NonEmpty(StubCalls[i]) )
                   => /\ GenerateDone
                      /\ HasKey(Generated, "_mock") )

\* on an instance that had switched, three attempts failed and the mock
\* response came back
C35_Witness ==
    /\ GenerateDone
    /\ exec.began_at = AlternateUrl
    /\ Len(StubCalls) = 3
    /\ \A i \in 1..3 : ~NonEmpty(StubCalls[i])
    /\ HasKey(Generated, "_mock")


\* ------------------------------------------------------------------------
\* MemSpec: execute, called for one request after another, when the users'
\* memories already hold earlier interactions
\* ------------------------------------------------------------------------
\* the entry of the i-th earlier interaction of a user
EarlierEntry(user_id, i) ==
    [ prompt |-> <<user_id, ToString(i)>>, enhanced_prompt |-> <<"earlier">>,
      image_reference |-> None, reference_path |-> None, timestamp |-> None,
      error |-> Some(<<"earlier failure">>) ]
Earlier(user_id, n) == [i \in 1..n |-> EarlierEntry(user_id, i)]

\* the memory after earlier calls: nothing, or 0, 9 or 10 interactions of
\* 'super-user' and 0 or 10 of 'u1'
InitMem ==
    /\ \/ memory = PyDict({})
       \/ \E n \in {0, MEMORY_LIMIT - 1, MEMORY_LIMIT}, m \in {0, MEMORY_LIMIT} :
            memory = PyDict({ <<"super-user", Earlier("super-user", n)>>,
                              <<"u1", Earlier("u1", m)>> })
    /\ exec = NoExec
    /\ response = None
    /\ exec_calls = <<>>
    /\ ProcIdle
    /\ ConcIdle

MemSpec == InitMem /\ [][NextExec]_vars

\* the user's memory, empty when there is none
MemoryOf(mem, user_id) == IF HasKey(mem, user_id) THEN GetItem(mem, user_id) ELSE <<>>
MemoryUsers == {"super-user", "u1"}
\* the last n entries of a list
LastOf(list, n) == SubSeq(list, Len(list) - n + 1, Len(list))

\* C36: after any sequence of execute calls each user's memory holds at most
\* 10 entries, the entries of the user's most recent interactions, oldest
\* first: a call that reaches image generation appends exactly one entry
\* for its prompt to its user's memory, which displaces the oldest entry
\* when there were 10, and no step changes the entries of another user or
\* changes them in another way.
C36_MemoryKeepsLastTen ==
    /\ [](\A u \in MemoryUsers : Len(MemoryOf(memory, u)) <= 10)
    /\ [][ \A u \in MemoryUsers :
             LET old == MemoryOf(memory, u)
                 new == MemoryOf(memory', u)
             IN IF exec.pc = "saving" /\ exec.user_id = u
                THEN /\ new # <<>>
                     /\ new[Len(new)].prompt = exec.user_prompt
                     /\ Len(new) = IF Len(old) < 10 THEN Len(old) + 1 ELSE 10
                     /\ SubSeq(new, 1, Len(new) - 1) = LastOf(old, Len(new) - 1)
                ELSE new = old
         ]_vars

\* a user with 10 earlier interactions made two more: the memory holds the
\* earlier interactions 3 to 10 and then the two new ones
C36_Witness ==
    /\ exec.pc = "idle"
    /\ exec.executes = 2
    /\ Len(MemoryOf(memory, "u1")) = 10
    /\ MemoryOf(memory, "u1")[1] = EarlierEntry("u1", 3)
    /\ MemoryOf(memory, "u1")[8] = EarlierEntry("u1", 10)
    /\ MemoryOf(memory, "u1")[9].prompt = <<"a">>
    /\ MemoryOf(memory, "u1")[9].error # None
    /\ MemoryOf(memory, "u1")[10].error = None
    /\ Len(MemoryOf(memory, "super-user")) = 9


\* ------------------------------------------------------------------------
\* ExecConcSpec: two calls of execute for the same user that run at the same
\* time. Python lists are objects: memory holds a reference to the user's
\* list, memory.get returns that reference, append changes the object in
\* place and the slice makes a new object.
\*   memory  = [ref: the list memory[user_id] refers to, or None; heap]
\*   threads = the frame of each call: [pc, user_context, entry]
\* ------------------------------------------------------------------------
ListIds == {<<"memory", "first">>} \cup (Requests \X {"init", "slice"})

\* the dictionary before the two calls: without the user's key, or with a
\* list of 0, 9 or 10 earlier interactions
InitExecConc ==
    /\ \/ memory = [ref |-> None, heap |-> [l \in ListIds |-> <<>>]]
       \/ \E n \in {0, MEMORY_LIMIT - 1, MEMORY_LIMIT} :
            memory = [ref |-> Some(<<"memory", "first">>),
                      heap |-> [l \in ListIds |->
                                  IF l = <<"memory", "first">>
                                  THEN Earlier("u1", n) ELSE <<>>]]
    /\ threads = [r \in Requests |->
                    [pc |-> "check", user_context |-> None, entry |-> None]]
    /\ clock = 0
    /\ files = {}
    /\ exec = <<>>
    /\ response = <<>>
    /\ exec_calls = <<>>
    /\ ProcIdle

execConcUnchanged == <<clock, files, exec, response, exec_calls, procVars>>

\* the frame of execute of request r, for the entries it appends
ExecFrameOf(r) == [user_prompt |-> <<r>>, enhanced_prompt |-> <<r, "enhanced">>]
EntriesOf(r) ==
    { SuccessEntry(ExecFrameOf(r), ImageResponse,
                   TheValue(save_image_reference(ImageResponse, t).value)) :
        t \in Times }
      \cup {ErrorEntry(ExecFrameOf(r), SaveReferenceError)}

\* line 70: `if user_id not in memory`
MemCheck(r) ==
    /\ threads[r].pc = "check"
    /\ threads' = [threads EXCEPT ![r].pc =
                      IF memory.ref = None THEN "init" ELSE "read"]
    /\ UNCHANGED <<memory, execConcUnchanged>>

\* line 71: `memory[user_id] = []`
MemInit(r) ==
    /\ threads[r].pc = "init"
    /\ memory' = [memory EXCEPT !.ref = Some(<<r, "init">>)]
    /\ threads' = [threads EXCEPT ![r].pc = "read"]
    /\ UNCHANGED execConcUnchanged

\* line 86: `user_context = memory.get(user_id, [])`; then lines 88-111,
\* where a failure of the enhancer or of Stub ends the call (lines 152-154)
MemRead(r) ==
    /\ threads[r].pc = "read"
    /\ \E fails \in BOOLEAN :
         threads' = [threads EXCEPT ![r].user_context = memory.ref,
                                    ![r].pc = IF fails THEN "done" ELSE "append"]
    /\ UNCHANGED <<memory, execConcUnchanged>>

\* lines 127-133 or 138-142: `user_context.append({...})`
MemAppend(r) ==
    /\ threads[r].pc = "append"
    /\ \E entry \in EntriesOf(r) :
         /\ memory' = [memory EXCEPT
                         !.heap[TheValue(threads[r].user_context)] = Append(@, entry)]
         /\ threads' = [threads EXCEPT ![r].entry = Some(entry),
                                       ![r].pc = "limit"]
    /\ UNCHANGED execConcUnchanged

\* lines 145-146: `if len(user_context) > 10: user_context = user_context[-10:]`
MemLimit(r) ==
    /\ threads[r].pc = "limit"
    /\ LET list == memory.heap[TheValue(threads[r].user_context)] IN
       IF Len(list) > MEMORY_LIMIT
       THEN /\ memory' = [memory EXCEPT !.heap[<<r, "slice">>] = trim(list)]
            /\ threads' = [threads EXCEPT ![r].user_context = Some(<<r, "slice">>),
                                          ![r].pc = "write"]
       ELSE /\ threads' = [threads EXCEPT ![r].pc = "write"]
            /\ UNCHANGED memory
    /\ UNCHANGED execConcUnchanged

\* line 147: `memory[user_id] = user_context`
MemWrite(r) ==
    /\ threads[r].pc = "write"
    /\ memory' = [memory EXCEPT !.ref = threads[r].user_context]
    /\ threads' = [threads EXCEPT ![r].pc = "done"]
    /\ UNCHANGED execConcUnchanged

NextExecConc ==
    \E r \in Requests :
        \/ MemCheck(r)
        \/ MemInit(r)
        \/ MemRead(r)
        \/ MemAppend(r)
        \/ MemLimit(r)
        \/ MemWrite(r)

ExecConcSpec == InitExecConc /\ [][NextExecConc]_vars

\* memory[user_id] when both calls are over
UserMemory == memory.heap[TheValue(memory.ref)]
BothDone == \A r \in Requests : threads[r].pc = "done"

\* C37: when two calls of execute for the same user run at the same time,
\* then, once both are over, the user's memory holds the entry of each call
\* that appended one, and no more than 10 entries: no interleaving of the
\* read, append, trim and write-back steps loses an entry or leaves more
\* than 10.
C37_ConcurrentMemory ==
    BothDone =>
        /\ memory.ref # None => Len(UserMemory) <= 10
        /\ \A r \in Requests :
             threads[r].entry # None =>
                 /\ memory.ref # None
                 /\ \E i \in 1..Len(UserMemory) : UserMemory[i] = TheValue(threads[r].entry)


\* ------------------------------------------------------------------------
\* OllamaSpec: one call of OllamaService(max_retries).enhance_prompt
\* (llm is the frame of _call_ollama_api, llm_log what requests.post did)
\* ------------------------------------------------------------------------
OllamaFrame(max_retries) == [max_retries |-> max_retries, attempt |-> 0]

\* what _call_ollama_api returns: a text, or None when its loop is empty
OllamaText(t) == [none |-> FALSE, text |-> t]
OllamaNone == [none |-> TRUE, text |-> <<>>]

DecodeError == Exc("JSONDecodeError", <<"Expecting value">>)
OtherError == Exc("TypeError", <<"unexpected response">>)
\* requests.post(...), raise_for_status(), response.json()
OllamaOutcomes ==
    {Return(PyDict({<<"response", t>>})) : t \in Texts}
        \cup { Return(PyDict({})), Raise(RequestError), Raise(DecodeError),
               Raise(OtherError) }

\* `except (requests.exceptions.RequestException, json.JSONDecodeError)`
OllamaRetries(e) == Catches("RequestException", e) \/ Catches("JSONDecodeError", e)

\* one iteration of the loop of _call_ollama_api (lines 85-105)
ollama_iteration(f, out) ==
    IF out.kind = "return"
    THEN LET result == TheValue(out.value) IN
         [ frame |-> f, slept |-> <<>>,
           result |-> Some(Return(OllamaText(IF HasKey(result, "response")
                                             THEN GetItem(result, "response")
                                             ELSE <<>>))) ]
    ELSE IF ~OllamaRetries(TheValue(out.exc))
    THEN [frame |-> f, slept |-> <<>>, result |-> Some(out)]
    ELSE IF f.attempt + 1 < f.max_retries
    THEN [ frame |-> [f EXCEPT !.attempt = @ + 1],
           slept |-> <<Pow(2, f.attempt)>>, result |-> None ]
    ELSE [ frame |-> f, slept |-> <<>>,
           result |-> Some(Raise(Exc("Exception",
                        <<"Failed to communicate with Ollama API: ">>
                            \o StrExc(TheValue(out.exc))))) ]

\* (variant: an enhance_prompt that takes any response that is not empty)
ollama_enhance_prompt_any_length(prompt, inner) ==
    IF inner.kind = "raise"
    THEN IF Catches("Exception", TheValue(inner.exc)) THEN Return(prompt) ELSE inner
    ELSE LET enhanced == TheValue(inner.value) IN
         IF enhanced.none \/ enhanced.text = <<>>
         THEN Return(prompt)
         ELSE Return(enhanced.text)

\* OllamaService.enhance_prompt (lines 139-148), given what
\* _call_ollama_api did
ollama_enhance_prompt(prompt, inner) ==
    IF inner.kind = "raise"
    THEN IF Catches("Exception", TheValue(inner.exc)) THEN Return(prompt) ELSE inner
    ELSE LET enhanced == TheValue(inner.value) IN
         IF enhanced.none \/ enhanced.text = <<>> \/ Len(enhanced.text) < Len(prompt)
         THEN Return(prompt)
         ELSE Return(enhanced.text)

InitOllama ==
    /\ user_prompt \in Texts
    /\ llm_service = "OllamaService"
    /\ pc = "ollama"
    /\ context = ExecutionContext(<<>>, None, "uuid-1", 0)
    /\ locals = NoLocals
    /\ stage_log = <<>>
    /\ outcome = "running"
    /\ thrown = None
    /\ \E n \in 0..MaxAttemptsBound : llm = OllamaFrame(n)
    /\ rf = NoRetryFrame
    /\ calls = <<>>
    /\ llm_log = <<>>
    /\ attempts = <<>>
    /\ sleeps = <<>>
    /\ returned = NothingReturned
    /\ ConcIdle
    /\ ExecIdle

\* one iteration of the loop; when the loop is left, enhance_prompt returns
OllamaRequest ==
    /\ pc = "ollama"
    /\ llm.attempt < llm.max_retries
    /\ \E out \in OllamaOutcomes :
         LET it == ollama_iteration(llm, out) IN
         /\ calls' = Append(calls, Call("requests.post", <<user_prompt>>))
         /\ sleeps' = sleeps \o it.slept
         /\ llm' = it.frame
         /\ llm_log' = Append(llm_log, out)
         /\ IF it.result = None
            THEN UNCHANGED <<pc, returned>>
            ELSE /\ Returned("enhance_prompt",
                             ollama_enhance_prompt(user_prompt, TheValue(it.result)))
                 /\ pc' = "ollama_done"
    /\ UNCHANGED <<user_prompt, llm_service, context, locals, stage_log, outcome,
                   thrown, rf, attempts>>
    /\ UNCHANGED <<concVars, execVars>>

\* range(self.max_retries) is empty: _call_ollama_api returns None
OllamaNoAttempt ==
    /\ pc = "ollama"
    /\ llm.attempt >= llm.max_retries
    /\ Returned("enhance_prompt", ollama_enhance_prompt(user_prompt, Return(OllamaNone)))
    /\ pc' = "ollama_done"
    /\ UNCHANGED <<user_prompt, llm_service, context, locals, stage_log, outcome,
                   thrown, llm, rf, calls, llm_log, attempts, sleeps>>
    /\ UNCHANGED <<concVars, execVars>>

NextOllama == OllamaRequest \/ OllamaNoAttempt

OllamaSpec == InitOllama /\ [][NextOllama]_vars

OllamaDone == pc = "ollama_done"
RetriedFailures ==
    Cardinality({i \in 1..Len(llm_log) :
                   llm_log[i].kind = "raise" /\ OllamaRetries(TheValue(llm_log[i].exc))})
LastResponse == llm_log[Len(llm_log)]
ResponseOrEmpty(out) ==
    IF HasKey(TheValue(out.value), "response") THEN ResponseText(out) ELSE <<>>

\* C38: OllamaService.enhance_prompt never raises and never returns a text
\* shorter than its prompt: it returns the prompt when the backend failed on
\* all max_retries attempts, when the response is empty and when the
\* response is shorter than the prompt; the loop waits 2^k seconds after
\* failed attempt k (k = 0, 1, ...) and does not wait after the final one.
C38_OllamaEnhance ==
    /\ \A k \in 1..Len(sleeps) : sleeps[k] = Pow(2, k - 1)
    /\ Len(sleeps) = IF RetriedFailures = llm.max_retries /\ RetriedFailures > 0
                     THEN RetriedFailures - 1 ELSE RetriedFailures
    /\ OllamaDone =>
         /\ IsReturn(returned["enhance_prompt"])
         /\ Len(ReturnedValue(returned["enhance_prompt"])) >= Len(user_prompt)
         /\ (llm_log = <<>> \/ LastResponse.kind = "raise") =>
              ReturnedValue(returned["enhance_prompt"]) = user_prompt
         /\ (llm_log # <<>> /\ LastResponse.kind = "return") =>
              ReturnedValue(returned["enhance_prompt"]) =
                  IF \/ ResponseOrEmpty(LastResponse) = <<>>
                     \/ Len(ResponseOrEmpty(LastResponse)) < Len(user_prompt)
                  THEN user_prompt ELSE ResponseOrEmpty(LastResponse)

\* after a request error and a decoding error the response was "a", shorter
\* than the prompt "a ", and the prompt came back
C38_Witness ==
    /\ OllamaDone
    /\ llm.max_retries = 3
    /\ user_prompt = <<"a", " ">>
    /\ llm_log = << Raise(RequestError), Raise(DecodeError),
                    Return(PyDict({<<"response", <<"a">>>>})) >>
    /\ sleeps = <<1, 2>>
    /\ returned["enhance_prompt"] = Some(Return(<<"a", " ">>))


\* ------------------------------------------------------------------------
\* TrimSpec: PromptEnhancer._intelligent_trim, called on its own and from the
\* end of PromptEnhancer.process (locals holds the arguments of the call)
\* ------------------------------------------------------------------------
\* Longest short text given to _intelligent_trim.
MaxTrimLen == 4
\* max_length of process
ENHANCER_MAX_LENGTH == 1000

TrimChars == {" ", "a", "."}
SentenceEnds == {".", "!", "?"}
ShortTexts == UNION {[1..n -> TrimChars] : n \in 0..MaxTrimLen}
\* texts of about max_length characters: n - 1 letters and a last character
LongText(n, last) == [i \in 1..n |-> IF i = n THEN last ELSE "a"]
LongTexts ==
    { LongText(n, last) : n \in (ENHANCER_MAX_LENGTH - 1)..(ENHANCER_MAX_LENGTH + 2),
                          last \in TrimChars }

\* text[i] and text[:n] of Python, for a text that is a sequence
CharAt(text, i) == text[i + 1]
Slice(text, n) == SubSeq(text, 1, IF n < Len(text) THEN n ELSE Len(text))

\* the values of breakpoint in `while breakpoint > max_length // 2`
Breakpoints(max_length) == ((max_length \div 2) + 1)..max_length
\* the first breakpoint, from max_length downwards, that a loop accepts
FirstDown(S) == CHOOSE b \in S : \A c \in S : c <= b

\* _intelligent_trim(text, max_length), lines 68-86
intelligent_trim(text, max_length) ==
    IF Len(text) <= max_length THEN text
    ELSE LET sentence == { b \in Breakpoints(max_length) :
                             /\ CharAt(text, b) \in SentenceEnds
                             /\ CharAt(text, b - 1) \notin SentenceEnds }
             spaces == { b \in Breakpoints(max_length) : CharAt(text, b) = " " }
         IN IF sentence # {} THEN strip(Slice(text, FirstDown(sentence) + 1))
            ELSE IF spaces # {} THEN strip(Slice(text, FirstDown(spaces)))
            ELSE strip(Slice(text, max_length))

\* the end of PromptEnhancer.process, lines 47-54
enhancer_finish(final_prompt) ==
    IF Len(final_prompt) > ENHANCER_MAX_LENGTH
    THEN intelligent_trim(final_prompt, ENHANCER_MAX_LENGTH)
    ELSE final_prompt

InitTrim ==
    /\ user_prompt = <<>>
    /\ llm_service = "LLMService"
    /\ pc = "trim"
    /\ context = ExecutionContext(user_prompt, None, "uuid-1", 0)
    /\ \/ \E t \in ShortTexts, m \in 1..MaxTrimLen :
            locals = [text |-> t, max_length |-> m]
       \/ \E t \in LongTexts :
            locals = [text |-> t, max_length |-> ENHANCER_MAX_LENGTH]
    /\ stage_log = <<>>
    /\ outcome = "running"
    /\ thrown = None
    /\ llm = LLMFrame(LLM_MAX_RETRIES, LLM_RETRY_DELAY)
    /\ rf = NoRetryFrame
    /\ calls = <<>>
    /\ llm_log = <<>>
    /\ attempts = <<>>
    /\ sleeps = <<>>
    /\ returned = NothingReturned
    /\ ConcIdle
    /\ ExecIdle

trimUnchanged ==
    << user_prompt, llm_service, context, locals, stage_log, outcome, thrown,
       llm, rf, llm_log, attempts, sleeps >>

\* _intelligent_trim(text, max_length) is called
TrimCall ==
    /\ pc = "trim"
    /\ calls' = <<Call("_intelligent_trim", <<>>)>>
    /\ Returned("func", Return(intelligent_trim(locals.text, locals.max_length)))
    /\ pc' = "trim_done"
    /\ UNCHANGED <<trimUnchanged, concVars, execVars>>

\* process reaches line 47 with the text as its final_prompt
EnhancerFinish ==
    /\ pc = "trim"
    /\ calls' = <<Call("process", <<>>)>>
    /\ Returned("func", Return(enhancer_finish(locals.text)))
    /\ pc' = "trim_done"
    /\ UNCHANGED <<trimUnchanged, concVars, execVars>>

NextTrim == TrimCall \/ EnhancerFinish

TrimSpec == InitTrim /\ [][NextTrim]_vars

IsPrefix(s, t) == Len(s) <= Len(t) /\ s = SubSeq(t, 1, Len(s))

\* C39: _intelligent_trim(text, max_length) returns a prefix of text of at
\* most max_length characters, wherever it cuts (sentence end, space or
\* hard break); so process never returns a prompt of more than 1000
\* characters.
C39_TrimWithinLimit ==
    pc = "trim_done" =>
        LET result == ReturnedValue(returned["func"]) IN
        /\ calls[1].name = "_intelligent_trim" =>
             /\ IsPrefix(result, locals.text)
             /\ Len(result) <= locals.max_length
        /\ calls[1].name = "process" => Len(result) <= ENHANCER_MAX_LENGTH

====
